---- MODULE Spec2Model ----
(***************************************************************************)
(* Hybrid A* open-space planner (modules/planning/open_space/              *)
(* hybrid_a_star.cc) as a state machine.                                   *)
(*                                                                         *)
(* Arithmetic is carried out on a lattice so that every double of the      *)
(* program is an integer of the model:                                     *)
(*   - lengths are in units of step_size (= xy_grid_resolution = 1);       *)
(*   - angles are in units of a quarter turn (pi = 2 units), so that cos   *)
(*     and sin of every heading are -1, 0 or 1;                            *)
(*   - the three steerings -max_steer, 0, +max_steer turn the heading by   *)
(*     -1, 0, +1 quarter turn per substep of length step_size;             *)
(*   - vehicle and obstacle boxes are axis-aligned rectangles in quarter   *)
(*     cells (positions multiplied by BoxScale).                           *)
(***************************************************************************)
EXTENDS Integers, Sequences, FiniteSets, TLC

(***************************************************************************)
(* Bounds of the model.                                                    *)
(***************************************************************************)
\* Iterations of the search loop explored per Plan call.
MaxPops == 3
\* Plan calls explored on one planner instance.
MaxCalls == 2
\* Reeds-Shepp paths given to CalculateRSPCost on its own: number of
\* segments and length of a segment.
MaxSegs == 3
MaxSegLen == 2
\* Configurations given to Next_node_generator on its own: next_node_num_ up
\* to MaxNodeNum, xy_grid_resolution_ and step_size_ up to MaxGrid.
MaxNodeNum == 8
MaxGrid == 3
\* The trajectory partition runs on trajectories of horizon_ up to MaxHorizon.
MaxHorizon == 4
\* The side pass decider is given lists of up to MaxObstacles obstacles.
MaxObstacles == 3

(***************************************************************************)
(* Configuration (HybridAStar constructor).                                *)
(***************************************************************************)
next_node_num_ == 6
max_steer_ == 1
step_size_ == 1
xy_grid_resolution_ == 1
phi_grid_resolution_ == 1
back_penalty_ == 2
gear_switch_penalty_ == 3
steer_penalty_ == 1
steer_change_penalty_ == 1
delta_t_ == 1
wheel_base_ == 1

(***************************************************************************)
(* Arithmetic helpers.                                                     *)
(***************************************************************************)
Pi == 2

Abs(z) == IF z < 0 THEN -z ELSE z

\* cos and sin of a heading given in quarter turns.
Cos(phi) == CASE phi % 4 = 0 -> 1 [] phi % 4 = 2 -> -1 [] OTHER -> 0

Sin(phi) == CASE phi % 4 = 1 -> 1 [] phi % 4 = 3 -> -1 [] OTHER -> 0

\* tan of a steering angle, in quarter turns of heading per unit of
\* traveled_distance / wheel_base; defined on the steerings the expander
\* and the Reeds-Shepp generator use.
Tan(steering) ==
  CASE steering = 0 -> 0
    [] steering = max_steer_ -> 1
    [] steering = -max_steer_ -> -1

\* std::atan of z quarter turns (z pi/2 radians), rounded to the milliradian:
\* atan(pi/2) = 1.0039, atan(pi) = 1.2626, atan(3pi/2) = 1.3617, and from
\* 2pi on the series atan(t) = pi/2 - 1/t + 1/(3t^3) - 1/(5t^5) + 1/(7t^7)
\* - 1/(9t^9) at t = k pi/2, evaluated in nanoradians (atan(2pi) = 1.4130,
\* atan(5pi/2) = 1.4442, atan(3pi) = 1.4651); a term is left out where it
\* is below a nanoradian.
Atan(z) ==
  LET k == Abs(z)
      k3 == k * k * k
      series == 1570796327 - 636619772 \div k
                  + (IF k < 1000 THEN 86004092 \div k3 ELSE 0)
                  - (IF k < 60 THEN 20913687 \div (k3 * k * k) ELSE 0)
                  + (IF k < 12 THEN 6054284 \div (k3 * k3 * k) ELSE 0)
                  - (IF k < 8 THEN 1908440 \div (k3 * k3 * k3) ELSE 0)
      pos == CASE k = 0 -> 0
               [] k = 1 -> 1004
               [] k = 2 -> 1263
               [] k = 3 -> 1362
               [] OTHER -> (series + 500000) \div 1000000
  IN IF z < 0 THEN -pos ELSE pos

\* common::math::NormalizeAngle: the heading in (-pi, pi].
NormalizeAngle(angle) ==
  LET a == (angle + Pi - 1) % (2 * Pi) IN a - (Pi - 1)

\* One substep of the bicycle model (lines 143-147).
BicycleStep(pose, traveled_distance, steering) ==
  << pose[1] + traveled_distance * Cos(pose[3]),
     pose[2] + traveled_distance * Sin(pose[3]),
     NormalizeAngle(pose[3] +
        (traveled_distance * Tan(steering)) \div wheel_base_) >>

(***************************************************************************)
(* Reeds-Shepp generator (ReedShepp::ShortestRSP): the shortest sequence   *)
(* of unit arcs and straight steps, forward or reverse, between two poses. *)
(***************************************************************************)
\* The six unit motions <<signed length, steering>>.
RSMoves ==
  << <<step_size_, 0>>, <<step_size_, max_steer_>>, <<step_size_, -max_steer_>>,
     <<-step_size_, 0>>, <<-step_size_, max_steer_>>, <<-step_size_, -max_steer_>> >>

RSRadius == 2 * MaxPops + 6

RSBox == { <<x, y, h>> : x \in -RSRadius..RSRadius, y \in -RSRadius..RSRadius,
                         h \in {-1, 0, 1, 2} }

RSStep(pose, m) == BicycleStep(pose, RSMoves[m][1], RSMoves[m][2])

\* The pose from which motion m arrives at pose t.
RSUnstep(t, m) ==
  LET d == RSMoves[m][1]
      h == NormalizeAngle(t[3] - (d * Tan(RSMoves[m][2])) \div wheel_base_)
  IN << t[1] - d * Cos(h), t[2] - d * Sin(h), h >>

RECURSIVE RSLayers(_, _)
RSLayers(found, frontier) ==
  IF frontier = {} THEN found
  ELSE LET cand == ({ RSStep(s, m) : s \in frontier, m \in 1..6 } \cap RSBox)
                     \ DOMAIN found
           pick(t) == CHOOSE m \in 1..6 :
                        /\ RSUnstep(t, m) \in frontier
                        /\ \A k \in 1..(m - 1) : RSUnstep(t, k) \notin frontier
           ext == [ t \in cand |-> Append(found[RSUnstep(t, pick(t))], pick(t)) ]
       IN RSLayers(found @@ ext, cand)

\* Shortest motion sequences from the origin with heading h0 to every pose
\* of the box.
RSTable == [ h0 \in {-1, 0, 1, 2} |->
               RSLayers(<<0, 0, h0>> :> <<>>, {<<0, 0, h0>>}) ]

\* Samples of the path that starts at pose `from` and follows motions ms.
RECURSIVE RSSamples(_, _)
RSSamples(from, ms) ==
  IF ms = <<>> THEN << from >>
  ELSE << from >> \o RSSamples(RSStep(from, Head(ms)), Tail(ms))

\* Maximal runs of equal motions: signed lengths and types of the segments.
RECURSIVE RSSegments(_)
RSSegments(ms) ==
  IF ms = <<>> THEN <<>>
  ELSE LET rest == RSSegments(Tail(ms))
           m == Head(ms)
       IN IF Len(ms) > 1 /\ ms[2] = m
          THEN << <<m, rest[1][2] + 1>> >> \o Tail(rest)
          ELSE << <<m, 1>> >> \o rest

RSSegType(m) ==
  CASE RSMoves[m][2] = 0 -> "S"
    [] RSMoves[m][2] > 0 -> "L"
    [] OTHER -> "R"

\* A default-constructed ReedSheppPath.
EmptyRSP == [ x |-> <<>>, y |-> <<>>, phi |-> <<>>,
              segs_lengths |-> <<>>, segs_types |-> <<>> ]

\* The path of motions ms from pose `from`.  With no motion at all the
\* generator returns either the single sample or, when zero_motion, a
\* zero-length segment sampled twice.
RSPath(from, ms, zero_motion) ==
  LET ps == IF ms = <<>> /\ zero_motion THEN << from, from >>
            ELSE RSSamples(from, ms)
      sg == RSSegments(ms)
  IN [ x |-> [ i \in 1..Len(ps) |-> ps[i][1] ],
       y |-> [ i \in 1..Len(ps) |-> ps[i][2] ],
       phi |-> [ i \in 1..Len(ps) |-> ps[i][3] ],
       segs_lengths |-> IF ms = <<>> THEN << 0 >>
                        ELSE [ i \in 1..Len(sg) |-> RSMoves[sg[i][1]][1] * sg[i][2] ],
       segs_types |-> IF ms = <<>> THEN << "S" >>
                      ELSE [ i \in 1..Len(sg) |-> RSSegType(sg[i][1]) ] ]

\* ReedShepp::ShortestRSP(start, end, out path): [ok, path].  rs_fail is the
\* set of poses from which the generator finds no path.  The headings of the
\* samples are normalized, the first included.
ShortestRSP(from_node, to_node, rs_fail, zero_motion) ==
  LET from == << from_node.x, from_node.y, from_node.phi >>
  IN IF from \in rs_fail
     THEN [ ok |-> FALSE, path |-> EmptyRSP ]
     ELSE [ ok |-> TRUE,
            path |-> RSPath(<< from[1], from[2], NormalizeAngle(from[3]) >>,
                       RSTable[NormalizeAngle(from[3])]
                              [<< to_node.x - from[1], to_node.y - from[2],
                                  NormalizeAngle(to_node.phi) >>],
                       zero_motion) ]

(***************************************************************************)
(* Node3d.                                                                 *)
(***************************************************************************)
\* Node3d::GetIndex: the key of the grid cell (ix, iy, iphi) of a pose.
NodeIndex(x, y, phi, XYbounds) ==
  LET nx == (XYbounds[2] - XYbounds[1]) \div xy_grid_resolution_
      ny == (XYbounds[4] - XYbounds[3]) \div xy_grid_resolution_
      ix == (x - XYbounds[1]) \div xy_grid_resolution_
      iy == (y - XYbounds[3]) \div xy_grid_resolution_
      iphi == (phi + Pi) \div phi_grid_resolution_
  IN iphi * nx * ny + iy * nx + ix

\* Node3d(x, y, phi, xs, ys, phis, XYbounds, conf): no parent, forward, zero
\* steer and costs.  pre is <<>> (null) or << parent node >>.
Node3d(x, y, phi, xs, ys, phis, XYbounds) ==
  [ x |-> x, y |-> y, phi |-> phi, xs |-> xs, ys |-> ys, phis |-> phis,
    index |-> NodeIndex(x, y, phi, XYbounds),
    pre |-> <<>>, direc |-> TRUE, steer |-> 0,
    traj_cost |-> 0, heu_cost |-> 0 ]

\* Node3d::GetCost.
GetCost(node) == node.traj_cost + node.heu_cost

\* Half length and half width of the vehicle, in quarter cells.
BoxScale == 4
VehHalfLength == 2
VehHalfWidth == 1

\* Node3d::GetBoundingBox: the vehicle's rectangle centered at the pose,
\* << xlo, xhi, ylo, yhi >> in quarter cells.
GetBoundingBox(x, y, phi) ==
  LET hx == IF Cos(phi) # 0 THEN VehHalfLength ELSE VehHalfWidth
      hy == IF Cos(phi) # 0 THEN VehHalfWidth ELSE VehHalfLength
  IN << BoxScale * x - hx, BoxScale * x + hx, BoxScale * y - hy, BoxScale * y + hy >>

\* Box2d::HasOverlap for axis-aligned boxes (touching boxes overlap).
HasOverlap(b, o) ==
  /\ b[1] <= o[2] /\ o[1] <= b[2]
  /\ b[3] <= o[4] /\ o[3] <= b[4]

(***************************************************************************)
(* HybridAStar helpers.                                                    *)
(***************************************************************************)
\* ValidityCheck with the wrong answer for an empty obstacle collection.
ValidityCheckEmptyInvalid(x, y, phi, obstacles) ==
  IF obstacles = {} THEN FALSE
  ELSE \A obstacle_box \in obstacles :
         ~HasOverlap(GetBoundingBox(x, y, phi), obstacle_box)

\* HybridAStar::ValidityCheck on the pose of a node.
ValidityCheck(x, y, phi, obstacles) ==
  IF obstacles = {} THEN TRUE
  ELSE \A obstacle_box \in obstacles :
         ~HasOverlap(GetBoundingBox(x, y, phi), obstacle_box)

\* HybridAStar::RSPCheck: every sample of the path is valid.
RSPCheck(rsp, obstacles) ==
  \A i \in 1..Len(rsp.x) : ValidityCheck(rsp.x[i], rsp.y[i], rsp.phi[i], obstacles)

\* Sum of the entries of a sequence (the accumulation into RSP_cost).
RECURSIVE SumSeq(_)
SumSeq(q) == IF q = <<>> THEN 0 ELSE Head(q) + SumSeq(Tail(q))

\* HybridAStar::CalculateRSPCost, the length term (lines 193-199).
RSPLengthCost(L) ==
  SumSeq([ i \in 1..Len(L) |-> IF L[i] > 0 THEN L[i] ELSE L[i] * back_penalty_ ])

\* The gear-switch term (lines 201-208), for a path with at least one segment.
RSPGearCost(L) ==
  SumSeq([ i \in 1..(Len(L) - 1) |->
             IF L[i] * L[i + 1] < 0 THEN gear_switch_penalty_ ELSE 0 ])

\* The steering term (lines 210-224): last_turning is the type of the first
\* non-'S' segment and is not updated afterwards.
RSPSteerCost(T) ==
  LET nonS == { i \in 1..Len(T) : T[i] # "S" }
      first == CHOOSE i \in nonS : \A j \in nonS : i <= j
      term(i) == IF T[i] = "S" THEN 0
                 ELSE steer_penalty_ * max_steer_ +
                      (IF i # first /\ T[i] # T[first]
                       THEN 2 * steer_change_penalty_ * max_steer_ ELSE 0)
  IN SumSeq([ i \in 1..Len(T) |-> term(i) ])

\* HybridAStar::CalculateRSPCost.
CalculateRSPCost(rsp) ==
  RSPLengthCost(rsp.segs_lengths) + RSPGearCost(rsp.segs_lengths) +
  RSPSteerCost(rsp.segs_types)

\* HybridAStar::NonHoloNoObstacleHeuristic.
NonHoloNoObstacleHeuristic(rsp) == CalculateRSPCost(rsp)

\* A final node whose cost continues the cost of its parent.
LoadRSPinCSFromParentCost(rsp, current_node, XYbounds) ==
  LET n == Len(rsp.x)
      end_node == Node3d(rsp.x[n], rsp.y[n], rsp.phi[n],
                         rsp.x, rsp.y, rsp.phi, XYbounds)
  IN [ end_node EXCEPT !.pre = << current_node >>,
                       !.traj_cost = current_node.traj_cost + CalculateRSPCost(rsp) ]

\* HybridAStar::LoadRSPinCS: the node that holds the whole path.
LoadRSPinCS(rsp, current_node, XYbounds) ==
  LET n == Len(rsp.x)
      end_node == Node3d(rsp.x[n], rsp.y[n], rsp.phi[n],
                         rsp.x, rsp.y, rsp.phi, XYbounds)
  IN [ end_node EXCEPT !.pre = << current_node >>,
                       !.traj_cost = CalculateRSPCost(rsp) ]

\* Number of iterations of `for (i = 0; i < arc / step_size_; i++)` with
\* arc = sqrt(2) * xy_grid_resolution_ (lines 132, 142): the least n with
\* n >= arc / step_size_, i.e. n^2 * step^2 >= 2 * res^2.
ArcSubsteps(res, step) ==
  CHOOSE n \in 0..(2 * res + 1) :
    /\ n * n * step * step >= 2 * res * res
    /\ \A k \in 0..(n - 1) : k * k * step * step < 2 * res * res

\* A fan whose spacing is 2 * max_steer / (next_node_num / 2): it never
\* reaches +max_steer.
SteeringHalfSpaced(next_node_num, next_node_index) ==
  LET half == next_node_num \div 2
      index == IF next_node_index < half THEN next_node_index
               ELSE next_node_index - half
  IN [ nan |-> FALSE, inf |-> FALSE, num |-> -half + 2 * index, den |-> half ]

\* Lines 120-129 for any configuration of at least two primitives: the
\* steering of primitive next_node_index out of next_node_num, as the
\* fraction num / den of max_steer.  With next_node_num / 2 = 1 the spacing
\* 2 * max_steer / 0 is +infinity: its product with the index 0 is not a
\* number, and with a positive index the steering is +infinity.
SteeringOf(next_node_num, next_node_index) ==
  LET half == next_node_num \div 2
      index == IF next_node_index < half THEN next_node_index
               ELSE next_node_index - half
  IN IF half - 1 = 0
     THEN IF index = 0
          THEN [ nan |-> TRUE, inf |-> FALSE, num |-> 0, den |-> 1 ]
          ELSE [ nan |-> FALSE, inf |-> TRUE, num |-> 1, den |-> 0 ]
     ELSE [ nan |-> FALSE, inf |-> FALSE,
            num |-> -(half - 1) + 2 * index, den |-> half - 1 ]

\* Lines 120-129 and 159: SetDirec(traveled_distance > 0).
DirectionOf(next_node_num, next_node_index) ==
  next_node_index < next_node_num \div 2

\* Steering of primitive next_node_index (lines 120-129).
PrimitiveSteering(next_node_index) ==
  LET half == next_node_num_ \div 2
      index == IF next_node_index < half THEN next_node_index
               ELSE next_node_index - half
  IN -max_steer_ + (2 * max_steer_ * index) \div (half - 1)

\* traveled_distance of primitive next_node_index (lines 120-129).
PrimitiveDistance(next_node_index) ==
  IF next_node_index < next_node_num_ \div 2 THEN step_size_ ELSE -step_size_

\* The integration loop (lines 136-154): the samples from pose `last`.
RECURSIVE Integrate(_, _, _, _)
Integrate(last, traveled_distance, steering, n) ==
  IF n = 0 THEN << last >>
  ELSE << last >> \o Integrate(BicycleStep(last, traveled_distance, steering),
                               traveled_distance, steering, n - 1)

\* HybridAStar::Next_node_generator.
Next_node_generator(current_node, next_node_index, XYbounds) ==
  LET steering == PrimitiveSteering(next_node_index)
      traveled_distance == PrimitiveDistance(next_node_index)
      ps == Integrate(<< current_node.x, current_node.y, current_node.phi >>,
                      traveled_distance, steering,
                      ArcSubsteps(xy_grid_resolution_, step_size_))
      last == ps[Len(ps)]
      node == Node3d(last[1], last[2], last[3],
                     [ i \in 1..Len(ps) |-> ps[i][1] ],
                     [ i \in 1..Len(ps) |-> ps[i][2] ],
                     [ i \in 1..Len(ps) |-> ps[i][3] ], XYbounds)
  IN [ node EXCEPT !.pre = << current_node >>,
                   !.direc = (traveled_distance > 0),
                   !.steer = steering ]

\* A node cost that charges the steering change against a zero steering
\* rather than against the parent's steering.
CalculateNodeCostSteerFromZero(current_node, next_node, rsp) ==
  LET piecewise_cost ==
        (IF next_node.direc THEN xy_grid_resolution_
         ELSE xy_grid_resolution_ * back_penalty_)
        + (IF current_node.direc # next_node.direc THEN gear_switch_penalty_ ELSE 0)
        + steer_penalty_ * Abs(next_node.steer)
        + steer_change_penalty_ * Abs(next_node.steer)
  IN [ next_node EXCEPT !.traj_cost = current_node.traj_cost + piecewise_cost,
                        !.heu_cost = NonHoloNoObstacleHeuristic(rsp) ]

\* HybridAStar::CalculateNodeCost: next_node with its costs set.
CalculateNodeCost(current_node, next_node, rsp) ==
  LET piecewise_cost ==
        (IF next_node.direc THEN xy_grid_resolution_
         ELSE xy_grid_resolution_ * back_penalty_)
        + (IF current_node.direc # next_node.direc THEN gear_switch_penalty_ ELSE 0)
        + steer_penalty_ * Abs(next_node.steer)
        + steer_change_penalty_ * Abs(next_node.steer - current_node.steer)
  IN [ next_node EXCEPT !.traj_cost = current_node.traj_cost + piecewise_cost,
                        !.heu_cost = NonHoloNoObstacleHeuristic(rsp) ]

(***************************************************************************)
(* Result reconstruction.                                                  *)
(***************************************************************************)
\* A Result: v holds the velocities in lattice units, and v_positive[i] is
\* what the test v[i] > 0 of line 302 answers on the double the code stored.
EmptyResult == [ x |-> <<>>, y |-> <<>>, phi |-> <<>>,
                 v |-> <<>>, v_positive |-> <<>>, a |-> <<>>, steer |-> <<>> ]

Reverse(q) == [ i \in 1..Len(q) |-> q[Len(q) + 1 - i] ]

\* std::reverse without the pop_back: the sample shared with the parent stays.
ReverseKeepShared(q) == Reverse(q)

\* std::reverse followed by pop_back (lines 240-245).
ReversePopBack(q) == SubSeq(Reverse(q), 1, Len(q) - 1)

\* The loop of GetResult (lines 232-253): [ok, x, y, phi].
RECURSIVE CollectSamples(_, _, _, _)
CollectSamples(current_node, hybrid_a_x, hybrid_a_y, hybrid_a_phi) ==
  IF current_node.pre # <<>>
  THEN IF Len(current_node.xs) = 0 \/ Len(current_node.ys) = 0
          \/ Len(current_node.phis) = 0
       THEN [ ok |-> FALSE, x |-> hybrid_a_x, y |-> hybrid_a_y, phi |-> hybrid_a_phi ]
       ELSE CollectSamples(current_node.pre[1],
                           hybrid_a_x \o ReversePopBack(current_node.xs),
                           hybrid_a_y \o ReversePopBack(current_node.ys),
                           hybrid_a_phi \o ReversePopBack(current_node.phis))
  ELSE [ ok |-> TRUE,
         x |-> Append(hybrid_a_x, current_node.x),
         y |-> Append(hybrid_a_y, current_node.y),
         phi |-> Append(hybrid_a_phi, current_node.phi) ]

\* The steps i of the samples x, y, phi on which the velocity of lines
\* 286-289 is 0 in exact arithmetic although the vehicle moves: the step is
\* perpendicular to the heading phi[i].  There the double is the rounding left
\* by std::cos and std::sin at a multiple of a quarter turn (cos(pi/2) =
\* 6.1e-17, sin(pi) = 1.2e-16) and by the additions of lines 143-144 in x and
\* y (0 + sin(pi) = 1.2e-16, 1 + 1.2e-16 = 1.0000000000000002); its sign is
\* not a function of the lattice values.  Between equal samples the
\* differences, and the velocity, are exactly 0.
RoundedSteps(x, y, phi) ==
  { i \in 1..(Len(x) - 1) :
      /\ i <= Len(y) - 1 /\ i <= Len(phi)
      /\ (x[i + 1] - x[i]) * Cos(phi[i]) + (y[i + 1] - y[i]) * Sin(phi[i]) = 0
      /\ (x[i + 1] # x[i] \/ y[i + 1] # y[i]) }

\* HybridAStar::GenerateSpeedAcceleration: [ok, result].  positive holds the
\* steps among RoundedSteps whose velocity the floating-point evaluation
\* leaves above 0.
GenerateSpeedAcceleration(result, positive) ==
  IF Len(result.x) < 2 \/ Len(result.y) < 2 \/ Len(result.phi) < 2
  THEN [ ok |-> FALSE, result |-> result ]
  ELSE LET x_size == Len(result.x)
           discrete_v(i) ==
             ((result.x[i + 1] - result.x[i]) \div delta_t_) * Cos(result.phi[i])
             + ((result.y[i + 1] - result.y[i]) \div delta_t_) * Sin(result.phi[i])
           v == Append(result.v \o [ i \in 1..(x_size - 1) |-> discrete_v(i) ], 0)
           discrete_v_positive(i) ==
             \/ discrete_v(i) > 0
             \/ i \in positive \cap RoundedSteps(result.x, result.y, result.phi)
           v_positive ==
             Append(result.v_positive
                      \o [ i \in 1..(x_size - 1) |-> discrete_v_positive(i) ],
                    FALSE)
           discrete_a(i) == (v[i + 1] - v[i]) \div delta_t_
           a == result.a \o [ i \in 1..(x_size - 1) |-> discrete_a(i) ]
           discrete_steer(i) ==
             LET raw == ((result.phi[i + 1] - result.phi[i]) * wheel_base_)
                          \div step_size_
             IN IF v_positive[i] THEN Atan(raw) ELSE Atan(-raw)
           steer == result.steer \o [ i \in 1..(x_size - 1) |-> discrete_steer(i) ]
       IN [ ok |-> TRUE,
            result |-> [ result EXCEPT !.v = v, !.v_positive = v_positive,
                                       !.a = a, !.steer = steer ] ]

\* GetResult without the size checks of lines 261-274.
GetResultNoSizeChecks(final_node, result, positive) ==
  LET c == CollectSamples(final_node, <<>>, <<>>, <<>>)
  IN IF ~c.ok THEN [ ok |-> FALSE, result |-> result ]
     ELSE GenerateSpeedAcceleration(
            [ result EXCEPT !.x = c.x, !.y = c.y, !.phi = c.phi ], positive)

\* HybridAStar::GetResult: [ok, result].
GetResult(final_node, result, positive) ==
  LET c == CollectSamples(final_node, <<>>, <<>>, <<>>)
  IN IF ~c.ok THEN [ ok |-> FALSE, result |-> result ]
     ELSE LET g == GenerateSpeedAcceleration(
                     [ result EXCEPT !.x = c.x, !.y = c.y, !.phi = c.phi ],
                     positive)
              r == g.result
          IN IF ~g.ok THEN [ ok |-> FALSE, result |-> r ]
             ELSE IF Len(r.x) # Len(r.y) \/ Len(r.x) # Len(r.v)
                     \/ Len(r.x) # Len(r.phi)
                  THEN [ ok |-> FALSE, result |-> r ]
             ELSE IF Len(r.a) # Len(r.steer) \/ Len(r.x) - Len(r.a) # 1
                  THEN [ ok |-> FALSE, result |-> r ]
             ELSE [ ok |-> TRUE, result |-> r ]

(***************************************************************************)
(* Inputs explored: poses, the planning region and obstacle collections.   *)
(***************************************************************************)
PlanXYbounds == << -4, 8, -4, 4 >>

\* Obstacle boxes << xlo, xhi, ylo, yhi >> in quarter cells.
BoxOnStart == << -1, 1, -1, 1 >>
BoxOnGoal == << 11, 13, -1, 1 >>
BoxThin == << 3, 5, -1, 1 >>
BoxWallRight == << 3, 8, -8, 8 >>
BoxWallLeft == << -8, -3, -8, 8 >>

ObstacleSets ==
  { {}, {BoxOnStart}, {BoxOnGoal}, {BoxThin}, {BoxWallLeft, BoxWallRight} }

StartPoses == { << 0, 0, 0 >> }
GoalPoses == { << 3, 0, 0 >>, << 0, 0, 0 >>, << 2, 1, 1 >> }

\* Closed rings of four boxes, thinner than the travel of a motion primitive:
\* one around the start pose (0,0), one around the cells (2,0) and (3,0).
RingAroundStart ==
  { << -5, -3, -5, 5 >>, << 3, 5, -5, 5 >>, << -5, 5, 3, 5 >>, << -5, 5, -5, -3 >> }
RingAroundGoal ==
  { << 3, 5, -5, 5 >>, << 15, 17, -5, 5 >>, << 3, 17, 3, 5 >>, << 3, 17, -5, -3 >> }

\* A closed ring around the cell (3,0), one cell thick: no motion primitive
\* ends inside it.
ThickRingAroundGoal ==
  { << 5, 9, -9, 9 >>, << 15, 19, -9, 9 >>, << 5, 19, 5, 9 >>, << 5, 19, -9, -5 >> }

\* A box behind the start: it is in the way of the straight reverse
\* primitive only.
BoxBehindStart == << -10, -7, -1, 1 >>

RingArgs ==
  { [ sx |-> 0, sy |-> 0, sphi |-> 0, ex |-> 3, ey |-> 0, ephi |-> 0,
      XYbounds |-> PlanXYbounds, obstacles |-> o ] :
    o \in { RingAroundStart, RingAroundGoal, ThickRingAroundGoal,
            ThickRingAroundGoal \cup { BoxBehindStart } } }

\* A start heading of three quarter turns, outside (-pi, pi], with the goal
\* straight ahead of it on a map without obstacles.
UnnormalizedStartArgs ==
  { [ sx |-> 0, sy |-> 0, sphi |-> 3, ex |-> 0, ey |-> -2, ephi |-> -1,
      XYbounds |-> PlanXYbounds, obstacles |-> {} ] }

PlanArgs ==
  { [ sx |-> s[1], sy |-> s[2], sphi |-> s[3],
      ex |-> e[1], ey |-> e[2], ephi |-> e[3],
      XYbounds |-> PlanXYbounds, obstacles |-> o ] :
    s \in StartPoses, e \in GoalPoses, o \in ObstacleSets }
  \cup RingArgs \cup UnnormalizedStartArgs

\* Poses from which the Reeds-Shepp generator may fail: none, the start, or
\* the straight successors of the start.
RSFailChoices == { {}, { << 0, 0, 0 >> }, { << 2, 0, 0 >>, << -2, 0, 0 >> } }

(***************************************************************************)
(* State.                                                                  *)
(***************************************************************************)
VARIABLES
  open_set_,             \* index key -> node
  close_set_,            \* index key -> node
  ReedSheppPath_cache_,  \* index key -> Reeds-Shepp path
  open_pq_,              \* the heap of << index key, cost >>, as its vector
  final_node_,           \* <<>> (nullptr) or << node >>
  start_node_,           \* <<>> or << node >>
  end_node_,             \* <<>> or << node >>
  XYbounds_,
  obstacles_,
  pc,                    \* position in Plan: idle, loop, expand, found, done, crashed
  current_node,          \* Plan's local, <<>> or << node >>
  next_node_index,       \* Plan's loop variable i
  ret,                   \* value returned by the last Plan call
  result,                \* the caller's Result object
  args,                  \* arguments of the current Plan call (<<>> before the first)
  result0,               \* *result when the current Plan call began
  fresh,                 \* the current call began on a newly constructed planner
  calls,                 \* Plan calls begun
  pops,                  \* entries popped from open_pq_ in the current call
  first,                 \* <<>> or << arguments and outcome of the first call >>
  pushed,                \* keys pushed onto open_pq_ in the current call, in order
  popped,                \* keys popped from open_pq_ in the current call, in order
  queried,               \* keys of the nodes given to ShortestRSP in the current call
  rounding,              \* final node -> the steps whose velocity rounded above 0
  rs_fail,               \* poses from which ShortestRSP fails
  rs_zero_motion,        \* the generator's answer to a query with start = end
  cmp,                   \* the comparator of open_pq_: ">=" or ">" on the costs
  cost_call,             \* a call of CalculateRSPCost on its own: path, position, RSP_cost
  prim_call,             \* a call of Next_node_generator on its own: configuration, outcome
  part_call,             \* OpenSpaceTrajectoryGenerator::Plan, the trajectory partition
  side_call              \* SidePassPathDecider::GetPathBoundaries and GetNearestObstacle

planner_vars == << open_set_, close_set_, ReedSheppPath_cache_, open_pq_,
                   final_node_, start_node_, end_node_, XYbounds_, obstacles_ >>
frame_vars == << pc, current_node, next_node_index, ret, result, pops >>
env_vars == << rs_fail, rs_zero_motion, cmp >>
hist_vars == << args, result0, fresh, calls, first, pushed, popped, queried,
               rounding >>
cost_vars == << cost_call >>
prim_vars == << prim_call >>
aux_vars == << part_call, side_call >>
vars == << planner_vars, frame_vars, env_vars, hist_vars, cost_vars, prim_vars,
           aux_vars >>

\* The planner and the running Plan call as one record.
State ==
  [ open_set_ |-> open_set_, close_set_ |-> close_set_,
    ReedSheppPath_cache_ |-> ReedSheppPath_cache_, open_pq_ |-> open_pq_,
    final_node_ |-> final_node_, start_node_ |-> start_node_,
    end_node_ |-> end_node_, XYbounds_ |-> XYbounds_, obstacles_ |-> obstacles_,
    pc |-> pc, current_node |-> current_node,
    next_node_index |-> next_node_index, ret |-> ret, result |-> result,
    pops |-> pops ]

\* The state of a newly constructed planner (lines 28-46).
Constructed ==
  [ open_set_ |-> <<>>, close_set_ |-> <<>>, ReedSheppPath_cache_ |-> <<>>,
    open_pq_ |-> <<>>, final_node_ |-> <<>>, start_node_ |-> <<>>,
    end_node_ |-> <<>>, XYbounds_ |-> <<>>, obstacles_ |-> {},
    pc |-> "idle", current_node |-> <<>>, next_node_index |-> 0,
    ret |-> FALSE, result |-> EmptyResult, pops |-> 0 ]

\* The next state is the record S.
Becomes(S) ==
  /\ open_set_' = S.open_set_
  /\ close_set_' = S.close_set_
  /\ ReedSheppPath_cache_' = S.ReedSheppPath_cache_
  /\ open_pq_' = S.open_pq_
  /\ final_node_' = S.final_node_
  /\ start_node_' = S.start_node_
  /\ end_node_' = S.end_node_
  /\ XYbounds_' = S.XYbounds_
  /\ obstacles_' = S.obstacles_
  /\ pc' = S.pc
  /\ current_node' = S.current_node
  /\ next_node_index' = S.next_node_index
  /\ ret' = S.ret
  /\ result' = S.result
  /\ pops' = S.pops

(***************************************************************************)
(* Containers.                                                             *)
(***************************************************************************)
\* std::map::insert: an existing key keeps its value.
MapInsert(m, k, v) == IF k \in DOMAIN m THEN m ELSE m @@ (k :> v)

\* struct cmp of open_pq_: left is ordered before right when its cost is
\* higher (c = ">") or not lower (c = ">=").
Cmp(left, right, c) ==
  IF c = ">=" THEN left[2] >= right[2] ELSE left[2] > right[2]

\* std::__push_heap: value climbs from the hole while its parent is ordered
\* before it.  Positions count from 0 as in the library; heap[i + 1] is the
\* element at position i.
RECURSIVE PushHeap(_, _, _, _, _)
PushHeap(heap, holeIndex, topIndex, value, c) ==
  LET parent == (holeIndex - 1) \div 2
  IN IF holeIndex > topIndex /\ Cmp(heap[parent + 1], value, c)
     THEN PushHeap([ heap EXCEPT ![holeIndex + 1] = heap[parent + 1] ],
                   parent, topIndex, value, c)
     ELSE [ heap EXCEPT ![holeIndex + 1] = value ]

\* The loop of std::__adjust_heap: the hole sinks along the children that
\* are not ordered before their sibling.
RECURSIVE SinkHole(_, _, _, _)
SinkHole(heap, holeIndex, len, c) ==
  IF holeIndex < (len - 1) \div 2
  THEN LET right == 2 * (holeIndex + 1)
           secondChild == IF Cmp(heap[right + 1], heap[right], c)
                          THEN right - 1 ELSE right
       IN SinkHole([ heap EXCEPT ![holeIndex + 1] = heap[secondChild + 1] ],
                   secondChild, len, c)
  ELSE << heap, holeIndex >>

\* std::__adjust_heap on the heap len elements.
AdjustHeap(heap, holeIndex, len, value, c) ==
  LET sunk == SinkHole(heap, holeIndex, len, c)
      f1 == sunk[1]
      secondChild == sunk[2]
  IN IF len % 2 = 0 /\ secondChild = (len - 2) \div 2
     THEN LET only == 2 * (secondChild + 1) - 1
          IN PushHeap([ f1 EXCEPT ![secondChild + 1] = f1[only + 1] ],
                      only, holeIndex, value, c)
     ELSE PushHeap(f1, secondChild, holeIndex, value, c)

\* std::priority_queue::push: push_back, then push_heap.
PqPush(pq, entry, c) == PushHeap(Append(pq, entry), Len(pq), 0, entry, c)

\* std::priority_queue::top.
PqTop(pq) == pq[1]

\* std::priority_queue::pop: pop_heap, then pop_back.
PqPop(pq, c) ==
  LET n == Len(pq)
  IN IF n > 1
     THEN SubSeq(AdjustHeap([ pq EXCEPT ![n] = pq[1] ], 0, n - 1, pq[n], c),
                 1, n - 1)
     ELSE << >>

\* The keys of the entries of pq, in the order of the vector.
PqKeys(pq) == [ i \in 1..Len(pq) |-> pq[i][1] ]

\* Number of entries of pq with key k.
KeyCount(pq, k) == Cardinality({ i \in 1..Len(pq) : pq[i][1] = k })

\* The keys that q holds more often than p, one push later.
PushedKeys(p, q) ==
  IF Len(q) > Len(p)
  THEN << CHOOSE k \in { q[i][1] : i \in 1..Len(q) } :
            KeyCount(q, k) > KeyCount(p, k) >>
  ELSE << >>

\* pq without the entry at position k.
WithoutEntry(pq, k) == SubSeq(pq, 1, k - 1) \o SubSeq(pq, k + 1, Len(pq))

\* p and q hold the same entries, each as often.
SameEntries(p, q) ==
  /\ Len(p) = Len(q)
  /\ \A i \in 1..Len(p) :
       Cardinality({ j \in 1..Len(p) : p[j] = p[i] })
         = Cardinality({ j \in 1..Len(q) : q[j] = p[i] })

(***************************************************************************)
(* HybridAStar::Plan, step by step.                                        *)
(***************************************************************************)
\* Clearing that leaves open_set_ as it was (line 316 missing).
ClearContainersKeepOpenSet(S) ==
  [ S EXCEPT !.close_set_ = <<>>, !.ReedSheppPath_cache_ = <<>>,
             !.open_pq_ = <<>>, !.final_node_ = <<>> ]

\* Clearing that leaves final_node_ as it was (line 320 missing).
ClearContainersKeepFinalNode(S) ==
  [ S EXCEPT !.open_set_ = <<>>, !.close_set_ = <<>>,
             !.ReedSheppPath_cache_ = <<>>, !.open_pq_ = <<>> ]

\* Lines 315-320: clear containers.
ClearContainers(S) ==
  [ S EXCEPT !.open_set_ = <<>>, !.close_set_ = <<>>,
             !.ReedSheppPath_cache_ = <<>>, !.open_pq_ = <<>>,
             !.final_node_ = <<>> ]

\* Lines 322-335: load XYbounds, the start and end nodes and the obstacles.
PlanLoadNodes(S, a, res) ==
  [ ClearContainers(S) EXCEPT
      !.XYbounds_ = a.XYbounds,
      !.start_node_ = << Node3d(a.sx, a.sy, a.sphi, << a.sx >>, << a.sy >>,
                                << a.sphi >>, a.XYbounds) >>,
      !.end_node_ = << Node3d(a.ex, a.ey, a.ephi, << a.ex >>, << a.ey >>,
                              << a.ephi >>, a.XYbounds) >>,
      !.obstacles_ = a.obstacles,
      !.result = res, !.ret = FALSE, !.pops = 0,
      !.current_node = <<>>, !.next_node_index = 0 ]

\* Lines 345-347: load the open set and the priority queue.
PlanLoadOpenSet(S) ==
  LET start == S.start_node_[1]
  IN [ S EXCEPT !.open_set_ = MapInsert(@, start.index, start),
                !.open_pq_ = PqPush(@, << start.index, GetCost(start) >>, cmp) ]

\* Plan's beginning with the validity checks after the loading of the open set.
PlanBeginStepChecksAfterLoad(S, a, res, fail, zero) ==
  LET S1 == PlanLoadNodes(S, a, res)
      start == S1.start_node_[1]
      end == S1.end_node_[1]
      S2 == PlanLoadOpenSet(S1)
      rs == ShortestRSP(start, end, fail, zero)
  IN IF ~rs.ok
     THEN [ S2 EXCEPT !.pc = "done" ]
     ELSE IF ~ValidityCheck(start.x, start.y, start.phi, a.obstacles)
             \/ ~ValidityCheck(end.x, end.y, end.phi, a.obstacles)
     THEN [ S2 EXCEPT !.pc = "done",
              !.ReedSheppPath_cache_ = MapInsert(@, start.index, rs.path) ]
     ELSE [ S2 EXCEPT !.pc = "loop",
              !.ReedSheppPath_cache_ = MapInsert(@, start.index, rs.path) ]

\* Plan's beginning without the test of ShortestRSP's return value.
PlanBeginStepIgnoresRSFailure(S, a, res, fail, zero) ==
  LET S1 == PlanLoadNodes(S, a, res)
      start == S1.start_node_[1]
      end == S1.end_node_[1]
      S2 == PlanLoadOpenSet(S1)
      rs == ShortestRSP(start, end, fail, zero)
  IN IF ~ValidityCheck(start.x, start.y, start.phi, a.obstacles)
     THEN [ S1 EXCEPT !.pc = "done" ]
     ELSE IF ~ValidityCheck(end.x, end.y, end.phi, a.obstacles)
     THEN [ S1 EXCEPT !.pc = "done" ]
     ELSE [ S2 EXCEPT !.pc = "loop",
              !.ReedSheppPath_cache_ = MapInsert(@, start.index, rs.path) ]

\* Lines 315-356: from the call to the first test of the loop condition.
PlanBeginStep(S, a, res, fail, zero) ==
  LET S1 == PlanLoadNodes(S, a, res)
      start == S1.start_node_[1]
      end == S1.end_node_[1]
      S2 == PlanLoadOpenSet(S1)
      rs == ShortestRSP(start, end, fail, zero)
  IN IF ~ValidityCheck(start.x, start.y, start.phi, a.obstacles)
     THEN [ S1 EXCEPT !.pc = "done" ]
     ELSE IF ~ValidityCheck(end.x, end.y, end.phi, a.obstacles)
     THEN [ S1 EXCEPT !.pc = "done" ]
     ELSE IF ~rs.ok
     THEN [ S2 EXCEPT !.pc = "done" ]
     ELSE [ S2 EXCEPT !.pc = "loop",
              !.ReedSheppPath_cache_ = MapInsert(@, start.index, rs.path) ]

\* Lines 365-374 for the queue entry taken and the queue left: the pop, the
\* analytic expansion, and the move to close_set_.  A key missing from
\* open_set_ or from the cache yields a null pointer that is dereferenced.
PopEntry(S, entry, left) ==
  LET current_id == entry[1]
      S1 == [ S EXCEPT !.open_pq_ = left, !.pops = @ + 1 ]
  IN IF current_id \notin DOMAIN S.open_set_
     THEN [ S1 EXCEPT !.pc = "crashed" ]
     ELSE LET node == S.open_set_[current_id]
          IN IF node.index \notin DOMAIN S.ReedSheppPath_cache_
             THEN [ S1 EXCEPT !.pc = "crashed", !.current_node = << node >> ]
             ELSE LET rsp == S.ReedSheppPath_cache_[node.index]
                  IN IF RSPCheck(rsp, S.obstacles_)
                     THEN LET end_node == LoadRSPinCS(rsp, node, S.XYbounds_)
                          IN [ S1 EXCEPT
                                 !.current_node = << node >>,
                                 !.final_node_ = << end_node >>,
                                 !.close_set_ = MapInsert(@, end_node.index, end_node),
                                 !.pc = "found" ]
                     ELSE [ S1 EXCEPT
                              !.current_node = << node >>,
                              !.close_set_ = MapInsert(@, node.index, node),
                              !.next_node_index = 0,
                              !.pc = "expand" ]

\* A pop that takes the last entry of the vector, whatever its cost.
PopStepLatest(S, c) ==
  PopEntry(S, S.open_pq_[Len(S.open_pq_)],
           SubSeq(S.open_pq_, 1, Len(S.open_pq_) - 1))

\* Lines 363-374: one iteration of the search loop up to the successor loop.
PopStep(S, c) == PopEntry(S, PqTop(S.open_pq_), PqPop(S.open_pq_, c))

\* A successor loop without the tests of lines 384 and 388: every valid
\* successor replaces the node of its key and is pushed.
ExpandStepUntested(S, fail, zero) ==
  LET cur == S.current_node[1]
      i == S.next_node_index
      next_node == Next_node_generator(cur, i, S.XYbounds_)
      S1 == [ S EXCEPT !.next_node_index = i + 1,
                       !.pc = IF i + 1 < next_node_num_ THEN "expand" ELSE "loop" ]
      rs == ShortestRSP(next_node, S.end_node_[1], fail, zero)
      costed == CalculateNodeCost(cur, next_node, rs.path)
  IN IF ~ValidityCheck(next_node.x, next_node.y, next_node.phi, S.obstacles_)
     THEN S1
     ELSE IF ~rs.ok
     THEN S1
     ELSE [ S1 EXCEPT
              !.ReedSheppPath_cache_ = MapInsert(@, next_node.index, rs.path),
              !.open_set_ = (costed.index :> costed) @@ @,
              !.open_pq_ = PqPush(@, << costed.index, GetCost(costed) >>, cmp) ]

\* A successor loop without the open-set test of line 388: a successor whose
\* key is not closed is pushed, whether or not its key is in open_set_.
ExpandStepNoOpenTest(S, fail, zero) ==
  LET cur == S.current_node[1]
      i == S.next_node_index
      next_node == Next_node_generator(cur, i, S.XYbounds_)
      S1 == [ S EXCEPT !.next_node_index = i + 1,
                       !.pc = IF i + 1 < next_node_num_ THEN "expand" ELSE "loop" ]
      rs == ShortestRSP(next_node, S.end_node_[1], fail, zero)
      costed == CalculateNodeCost(cur, next_node, rs.path)
  IN IF ~ValidityCheck(next_node.x, next_node.y, next_node.phi, S.obstacles_)
     THEN S1
     ELSE IF next_node.index \in DOMAIN S.close_set_
     THEN S1
     ELSE IF ~rs.ok
     THEN S1
     ELSE [ S1 EXCEPT
              !.ReedSheppPath_cache_ = MapInsert(@, next_node.index, rs.path),
              !.open_set_ = MapInsert(@, costed.index, costed),
              !.open_pq_ = PqPush(@, << costed.index, GetCost(costed) >>, cmp) ]

\* A successor loop that rewires (lines 403-405 not left empty): a successor
\* reaching an open key replaces the node of that key, which takes the new
\* parent, costs and samples.
ExpandStepRewires(S, fail, zero) ==
  LET cur == S.current_node[1]
      i == S.next_node_index
      next_node == Next_node_generator(cur, i, S.XYbounds_)
      S1 == [ S EXCEPT !.next_node_index = i + 1,
                       !.pc = IF i + 1 < next_node_num_ THEN "expand" ELSE "loop" ]
      rs == ShortestRSP(next_node, S.end_node_[1], fail, zero)
      costed == CalculateNodeCost(cur, next_node, rs.path)
  IN IF ~ValidityCheck(next_node.x, next_node.y, next_node.phi, S.obstacles_)
     THEN S1
     ELSE IF next_node.index \in DOMAIN S.close_set_
     THEN S1
     ELSE IF ~rs.ok
     THEN S1
     ELSE IF next_node.index \notin DOMAIN S.open_set_
     THEN [ S1 EXCEPT
              !.ReedSheppPath_cache_ = MapInsert(@, next_node.index, rs.path),
              !.open_set_ = MapInsert(@, costed.index, costed),
              !.open_pq_ = PqPush(@, << costed.index, GetCost(costed) >>, cmp) ]
     ELSE [ S1 EXCEPT !.open_set_ = (costed.index :> costed) @@ @ ]

\* A successor loop that a failure of ReedSheppHeuristic ends: the remaining
\* successors of the parent are not processed.
ExpandStepFailureEndsLoop(S, fail, zero) ==
  LET cur == S.current_node[1]
      i == S.next_node_index
      next_node == Next_node_generator(cur, i, S.XYbounds_)
      S1 == [ S EXCEPT !.next_node_index = i + 1,
                       !.pc = IF i + 1 < next_node_num_ THEN "expand" ELSE "loop" ]
      rs == ShortestRSP(next_node, S.end_node_[1], fail, zero)
      costed == CalculateNodeCost(cur, next_node, rs.path)
  IN IF ~ValidityCheck(next_node.x, next_node.y, next_node.phi, S.obstacles_)
     THEN S1
     ELSE IF next_node.index \in DOMAIN S.close_set_
     THEN S1
     ELSE IF next_node.index \notin DOMAIN S.open_set_
     THEN IF ~rs.ok
          THEN [ S EXCEPT !.next_node_index = next_node_num_, !.pc = "loop" ]
          ELSE [ S1 EXCEPT
                   !.ReedSheppPath_cache_ = MapInsert(@, next_node.index, rs.path),
                   !.open_set_ = MapInsert(@, costed.index, costed),
                   !.open_pq_ = PqPush(@, << costed.index, GetCost(costed) >>, cmp) ]
     ELSE S1

\* A successor loop without the validity check of line 380.
ExpandStepNoValidityCheck(S, fail, zero) ==
  LET cur == S.current_node[1]
      i == S.next_node_index
      next_node == Next_node_generator(cur, i, S.XYbounds_)
      S1 == [ S EXCEPT !.next_node_index = i + 1,
                       !.pc = IF i + 1 < next_node_num_ THEN "expand" ELSE "loop" ]
      rs == ShortestRSP(next_node, S.end_node_[1], fail, zero)
      costed == CalculateNodeCost(cur, next_node, rs.path)
  IN IF next_node.index \in DOMAIN S.close_set_
     THEN S1
     ELSE IF next_node.index \notin DOMAIN S.open_set_
     THEN IF ~rs.ok
          THEN S1
          ELSE [ S1 EXCEPT
                   !.ReedSheppPath_cache_ = MapInsert(@, next_node.index, rs.path),
                   !.open_set_ = MapInsert(@, costed.index, costed),
                   !.open_pq_ = PqPush(@, << costed.index, GetCost(costed) >>, cmp) ]
     ELSE S1

\* A successor loop that ignores the return value of ReedSheppHeuristic: the
\* successor is inserted and pushed although no path was cached for it.
ExpandStepKeepsUncached(S, fail, zero) ==
  LET cur == S.current_node[1]
      i == S.next_node_index
      next_node == Next_node_generator(cur, i, S.XYbounds_)
      S1 == [ S EXCEPT !.next_node_index = i + 1,
                       !.pc = IF i + 1 < next_node_num_ THEN "expand" ELSE "loop" ]
      rs == ShortestRSP(next_node, S.end_node_[1], fail, zero)
      costed == CalculateNodeCost(cur, next_node, rs.path)
  IN IF ~ValidityCheck(next_node.x, next_node.y, next_node.phi, S.obstacles_)
     THEN S1
     ELSE IF next_node.index \in DOMAIN S.close_set_
     THEN S1
     ELSE IF next_node.index \notin DOMAIN S.open_set_
     THEN [ S1 EXCEPT
              !.ReedSheppPath_cache_ =
                 IF rs.ok THEN MapInsert(@, next_node.index, rs.path) ELSE @,
              !.open_set_ = MapInsert(@, costed.index, costed),
              !.open_pq_ = PqPush(@, << costed.index, GetCost(costed) >>, cmp) ]
     ELSE S1

\* Lines 377-406: one iteration of the successor loop.
ExpandStep(S, fail, zero) ==
  LET cur == S.current_node[1]
      i == S.next_node_index
      next_node == Next_node_generator(cur, i, S.XYbounds_)
      S1 == [ S EXCEPT !.next_node_index = i + 1,
                       !.pc = IF i + 1 < next_node_num_ THEN "expand" ELSE "loop" ]
      rs == ShortestRSP(next_node, S.end_node_[1], fail, zero)
      costed == CalculateNodeCost(cur, next_node, rs.path)
  IN IF ~ValidityCheck(next_node.x, next_node.y, next_node.phi, S.obstacles_)
     THEN S1
     ELSE IF next_node.index \in DOMAIN S.close_set_
     THEN S1
     ELSE IF next_node.index \notin DOMAIN S.open_set_
     THEN IF ~rs.ok
          THEN S1
          ELSE [ S1 EXCEPT
                   !.ReedSheppPath_cache_ = MapInsert(@, next_node.index, rs.path),
                   !.open_set_ = MapInsert(@, costed.index, costed),
                   !.open_pq_ = PqPush(@, << costed.index, GetCost(costed) >>, cmp) ]
     ELSE S1

\* Lines 378-393: the key of the successor that ReedSheppHeuristic hands to
\* ShortestRSP in this iteration of the successor loop, if it is called.
HeuristicQuery(S) ==
  LET next_node == Next_node_generator(S.current_node[1], S.next_node_index,
                                       S.XYbounds_)
  IN IF /\ ValidityCheck(next_node.x, next_node.y, next_node.phi, S.obstacles_)
        /\ next_node.index \notin DOMAIN S.close_set_
        /\ next_node.index \notin DOMAIN S.open_set_
     THEN << next_node.index >>
     ELSE << >>

\* Lines 408-418: after the loop.
FinishStep(S, positive) ==
  IF S.final_node_ = <<>>
  THEN [ S EXCEPT !.pc = "done", !.ret = FALSE ]
  ELSE LET g == GetResult(S.final_node_[1], S.result, positive)
       IN [ S EXCEPT !.pc = "done", !.ret = g.ok, !.result = g.result ]

\* The steps of the path of final_node whose velocity is decided by rounding.
RoundedStepsOf(final_node) ==
  LET c == CollectSamples(final_node, <<>>, <<>>, <<>>)
  IN IF c.ok THEN RoundedSteps(c.x, c.y, c.phi) ELSE {}

\* The floating-point evaluation is a function of the samples: on a path an
\* earlier call has evaluated it answers as it did, on a new one any way.
PositiveChoices(S) ==
  IF S.final_node_ = <<>> THEN { {} }
  ELSE IF S.final_node_[1] \in DOMAIN rounding
       THEN { rounding[S.final_node_[1]] }
       ELSE SUBSET RoundedStepsOf(S.final_node_[1])

\* Every way the floating-point evaluation may answer on the path of S.
EveryRounding(S) ==
  IF S.final_node_ = <<>> THEN { {} }
  ELSE SUBSET RoundedStepsOf(S.final_node_[1])

Learned(S, positive) ==
  IF S.final_node_ = <<>> \/ RoundedStepsOf(S.final_node_[1]) = {}
  THEN rounding
  ELSE [ n \in DOMAIN rounding \cup { S.final_node_[1] } |->
           IF n = S.final_node_[1] THEN positive ELSE rounding[n] ]

\* What Plan returns and leaves in *result.
Outcome(S) == [ ret |-> S.ret, result |-> S.result ]

(***************************************************************************)
(* Actions.                                                                *)
(***************************************************************************)
\* The first completed call, kept to tell later calls from it.
Recorded(S, a, res, fr, n) ==
  IF n = 1 /\ S.pc = "done"
  THEN << [ args |-> a, result0 |-> res, fresh |-> fr, outcome |-> Outcome(S) ] >>
  ELSE first

\* No call of CalculateRSPCost on its own.
NoCostCall ==
  [ segs_lengths |-> <<>>, segs_types |-> <<>>, pc |-> "none", RSP_cost |-> 0,
    gear_term |-> 0, steer_term |-> 0, out_of_range |-> FALSE ]

InitPlanner ==
  /\ open_set_ = Constructed.open_set_
  /\ close_set_ = Constructed.close_set_
  /\ ReedSheppPath_cache_ = Constructed.ReedSheppPath_cache_
  /\ open_pq_ = Constructed.open_pq_
  /\ final_node_ = Constructed.final_node_
  /\ start_node_ = Constructed.start_node_
  /\ end_node_ = Constructed.end_node_
  /\ XYbounds_ = Constructed.XYbounds_
  /\ obstacles_ = Constructed.obstacles_
  /\ pc = Constructed.pc
  /\ current_node = Constructed.current_node
  /\ next_node_index = Constructed.next_node_index
  /\ ret = Constructed.ret
  /\ result = Constructed.result
  /\ pops = Constructed.pops
  /\ args = <<>>
  /\ result0 = EmptyResult
  /\ fresh = TRUE
  /\ calls = 0
  /\ first = <<>>
  /\ pushed = <<>>
  /\ popped = <<>>
  /\ queried = <<>>
  /\ rounding = <<>>

\* No call of the trajectory partition and none of the side pass decider.
NoPartCall ==
  [ v |-> <<>>, pc |-> "none", i |-> 0, status |-> "",
    trajectory_partition |-> <<>>, trajectory_partition_ |-> <<>> ]

NoSideCall ==
  [ obstacles |-> <<>>, pc |-> "none", i |-> 0, nearest_obstacle |-> 0,
    no_obs_selected |-> TRUE, nearest_obs_start_s |-> 0,
    null_dereferenced |-> FALSE, nearest_obs_sl_boundary |-> <<>> ]

NoAuxCalls == part_call = NoPartCall /\ side_call = NoSideCall

\* No call of Next_node_generator on its own.
NoPrimCall ==
  [ next_node_num |-> 0, next_node_index |-> 0, xy_grid_resolution |-> 0,
    step_size |-> 0, pc |-> "none", direc |-> TRUE,
    steering |-> [ nan |-> FALSE, inf |-> FALSE, num |-> 0, den |-> 1 ],
    substeps |-> 0, samples |-> 0 ]

Init ==
  /\ InitPlanner
  /\ prim_call = NoPrimCall
  /\ NoAuxCalls
  /\ rs_fail \in RSFailChoices
  /\ rs_zero_motion \in BOOLEAN
  /\ cmp \in { ">=", ">" }
  /\ cost_call = NoCostCall

\* The arguments the caller may pass next: any scenario in its first two
\* calls; from the third call on it repeats the first call, so that a later
\* call is set against the first one on the same arguments.
CallArgs ==
  IF first = <<>> \/ calls < 2
  THEN PlanArgs
  ELSE { first[1].args }

\* The Result object the caller may pass next: an empty one or the object of
\* the previous call in its first two calls; from the third call on, the
\* one of the first call.
CallResults ==
  IF first = <<>> \/ calls < 2
  THEN { EmptyResult, result }
  ELSE { first[1].result0 }

\* The caller invokes Plan with arguments a, passing either an empty Result or
\* the Result object of the previous call.
PlanCall ==
  /\ pc \in { "idle", "done" }
  /\ calls < MaxCalls
  /\ \E a \in CallArgs, res \in CallResults :
       LET S == PlanBeginStep(State, a, res, rs_fail, rs_zero_motion)
       IN /\ Becomes(S)
          /\ args' = a
          /\ result0' = res
          /\ fresh' = (pc = "idle")
          /\ calls' = calls + 1
          /\ first' = Recorded(S, a, res, pc = "idle", calls + 1)
          /\ pushed' = PqKeys(S.open_pq_)
          /\ popped' = <<>>
          /\ queried' = PqKeys(S.open_pq_)
  /\ UNCHANGED << aux_vars, env_vars, cost_vars, prim_vars, rounding >>

\* Lines 363-374.
Pop ==
  /\ pc = "loop"
  /\ open_pq_ # <<>>
  /\ pops < MaxPops
  /\ LET S == PopStep(State, cmp)
         key == CHOOSE k \in { open_pq_[i][1] : i \in 1..Len(open_pq_) } :
                  KeyCount(S.open_pq_, k) < KeyCount(open_pq_, k)
     IN /\ Becomes(S)
        /\ popped' = Append(popped, key)
  /\ UNCHANGED << aux_vars, env_vars, cost_vars, prim_vars, args, result0, fresh, calls, first, pushed, queried, rounding >>

\* Lines 377-406.
Expand ==
  /\ pc = "expand"
  /\ LET S == ExpandStep(State, rs_fail, rs_zero_motion)
     IN /\ Becomes(S)
        /\ pushed' = pushed \o PushedKeys(open_pq_, S.open_pq_)
        /\ queried' = queried \o HeuristicQuery(State)
  /\ UNCHANGED << aux_vars, env_vars, cost_vars, prim_vars, args, result0, fresh, calls, first, popped, rounding >>

\* Lines 408-418, reached by the break or by the queue running empty.
Finish ==
  /\ pc = "found" \/ (pc = "loop" /\ open_pq_ = <<>>)
  /\ \E positive \in PositiveChoices(State) :
       LET S == FinishStep(State, positive)
       IN /\ Becomes(S)
          /\ first' = Recorded(S, args, result0, fresh, calls)
          /\ rounding' = Learned(State, positive)
  /\ UNCHANGED << aux_vars, env_vars, cost_vars, prim_vars, args, result0, fresh, calls, pushed, popped, queried >>

\* The caller replaces the planner by a newly constructed one (lines 28-46);
\* its Result object and the last return value stay as they are.
Construct ==
  /\ pc = "done"
  /\ calls < MaxCalls
  /\ Becomes([ Constructed EXCEPT !.ret = ret, !.result = result ])
  /\ UNCHANGED << aux_vars, env_vars, cost_vars, prim_vars, hist_vars >>

Next == PlanCall \/ Pop \/ Expand \/ Finish \/ Construct

Spec == Init /\ [][Next]_vars

(***************************************************************************)
(* CalculateRSPCost on its own, on every path of at most MaxSegs segments  *)
(* with signed lengths between -MaxSegLen and MaxSegLen and types S, L, R. *)
(***************************************************************************)
SegLengthLists ==
  UNION { [ 1..n -> (-MaxSegLen)..MaxSegLen ] : n \in 0..MaxSegs }

SegTypeLists(n) == [ 1..n -> { "S", "L", "R" } ]

InitCost ==
  /\ InitPlanner
  /\ prim_call = NoPrimCall
  /\ NoAuxCalls
  /\ rs_fail = {}
  /\ rs_zero_motion = FALSE
  /\ cmp = ">="
  /\ \E L \in SegLengthLists :
       \E T \in SegTypeLists(Len(L)) :
         cost_call = [ NoCostCall EXCEPT !.segs_lengths = L, !.segs_types = T,
                                         !.pc = "length" ]

\* Lines 191-199: the loop over the segment lengths.
CostLengthLoop ==
  /\ cost_call.pc = "length"
  /\ cost_call' = [ cost_call EXCEPT !.pc = "gear",
                      !.RSP_cost = @ + RSPLengthCost(cost_call.segs_lengths) ]
  /\ UNCHANGED << planner_vars, frame_vars, env_vars, hist_vars, prim_vars, aux_vars >>

\* Lines 201-208: the loop over the pairs of adjacent segments.  Its bound
\* segs_lengths.size() - 1 is unsigned: for a path without segments it wraps
\* around and the loop reads segs_lengths outside its range, which is
\* undefined: the call crashes, or goes on with a term made of whatever the
\* reads returned.
CostGearLoop ==
  /\ cost_call.pc = "gear"
  /\ IF Len(cost_call.segs_lengths) = 0
     THEN \/ cost_call' = [ cost_call EXCEPT !.pc = "crashed",
                                              !.out_of_range = TRUE ]
          \/ \E garbage \in { 0, gear_switch_penalty_ } :
               cost_call' = [ cost_call EXCEPT !.pc = "steer",
                                !.out_of_range = TRUE,
                                !.gear_term = garbage,
                                !.RSP_cost = @ + garbage ]
     ELSE cost_call' = [ cost_call EXCEPT !.pc = "steer",
                           !.gear_term = RSPGearCost(cost_call.segs_lengths),
                           !.RSP_cost = @ + RSPGearCost(cost_call.segs_lengths) ]
  /\ UNCHANGED << planner_vars, frame_vars, env_vars, hist_vars, prim_vars, aux_vars >>

\* Lines 209-225: the loop over the segment types.
CostSteerLoop ==
  /\ cost_call.pc = "steer"
  /\ cost_call' = [ cost_call EXCEPT !.pc = "done",
                      !.steer_term = RSPSteerCost(cost_call.segs_types),
                      !.RSP_cost = @ + RSPSteerCost(cost_call.segs_types) ]
  /\ UNCHANGED << planner_vars, frame_vars, env_vars, hist_vars, prim_vars, aux_vars >>

NextCost == CostLengthLoop \/ CostGearLoop \/ CostSteerLoop

SpecCost == InitCost /\ [][NextCost]_vars

(***************************************************************************)
(* Next_node_generator on its own, for every even next_node_num up to      *)
(* MaxNodeNum, every primitive index, and every xy_grid_resolution and     *)
(* step_size up to MaxGrid.                                                *)
(***************************************************************************)
NodeNums == { K \in 2..MaxNodeNum : K % 2 = 0 }

InitPrim ==
  /\ InitPlanner
  /\ NoAuxCalls
  /\ rs_fail = {}
  /\ rs_zero_motion = FALSE
  /\ cmp = ">="
  /\ cost_call = NoCostCall
  /\ \E K \in NodeNums, res \in 1..MaxGrid, step \in 1..MaxGrid :
       \E k \in 0..(K - 1) :
         prim_call = [ NoPrimCall EXCEPT !.next_node_num = K,
                         !.next_node_index = k, !.xy_grid_resolution = res,
                         !.step_size = step, !.pc = "call" ]

\* Lines 115-161: steering and direction of the primitive, the number of
\* iterations of the integration loop and of samples the node carries.
GeneratePrimitive ==
  /\ prim_call.pc = "call"
  /\ LET n == ArcSubsteps(prim_call.xy_grid_resolution, prim_call.step_size)
     IN prim_call' =
          [ prim_call EXCEPT
              !.pc = "done",
              !.direc = DirectionOf(prim_call.next_node_num,
                                    prim_call.next_node_index),
              !.steering = SteeringOf(prim_call.next_node_num,
                                      prim_call.next_node_index),
              !.substeps = n,
              !.samples = n + 1 ]
  /\ UNCHANGED << planner_vars, frame_vars, env_vars, hist_vars, cost_vars, aux_vars >>

NextPrim == GeneratePrimitive

SpecPrim == InitPrim /\ [][NextPrim]_vars

(***************************************************************************)
(* OpenSpaceTrajectoryGenerator::Plan, step 9: the partition of the        *)
(* horizon_ + 1 trajectory points into trajectories of one gear each.      *)
(* Velocities are in units of the threshold 1e-3.                          *)
(***************************************************************************)
VelEps == 1
VelocityLevels == (-2 * VelEps)..(2 * VelEps)

\* An ADCTrajectory without points.
NewTrajectory(gear) == [ gear |-> gear, points |-> <<>> ]

\* state_result_ds(3, i), with i counted from 0.
StateV(c, i) == c.v[i + 1]

\* horizon_ of a call: the trajectory has horizon_ + 1 points.
Horizon(c) == Len(c.v) - 1

\* Lines 213-230: the first trajectory and its gear, or an error status.
PartitionStartStep(c) ==
  IF Horizon(c) < 3
  THEN [ c EXCEPT !.pc = "error", !.status = "Invalid trajectory length!",
                  !.trajectory_partition = << NewTrajectory("GEAR_NONE") >> ]
  ELSE IF StateV(c, 0) > -VelEps /\ StateV(c, 1) > -VelEps /\ StateV(c, 2) > -VelEps
  THEN [ c EXCEPT !.pc = "loop", !.i = 0,
                  !.trajectory_partition = << NewTrajectory("GEAR_DRIVE") >> ]
  ELSE IF StateV(c, 0) < VelEps /\ StateV(c, 1) < VelEps /\ StateV(c, 2) < VelEps
  THEN [ c EXCEPT !.pc = "loop", !.i = 0,
                  !.trajectory_partition = << NewTrajectory("GEAR_REVERSE") >> ]
  ELSE [ c EXCEPT !.pc = "error", !.status = "Invalid trajectory start!",
                  !.trajectory_partition = << NewTrajectory("GEAR_NONE") >> ]

\* The gear of current_trajectory, the last trajectory of the partition.
CurrentGear(tp) == tp[Len(tp)].gear

\* Lines 234-238 and 241-245: a new trajectory when the velocity of the point
\* is beyond the threshold against the gear of the current one.
ShiftToReverse(tp, v) ==
  IF v < -VelEps /\ CurrentGear(tp) = "GEAR_DRIVE"
  THEN Append(tp, NewTrajectory("GEAR_REVERSE")) ELSE tp

ShiftToDrive(tp, v) ==
  IF v > VelEps /\ CurrentGear(tp) = "GEAR_REVERSE"
  THEN Append(tp, NewTrajectory("GEAR_DRIVE")) ELSE tp

\* Lines 247-271: the point i added to the current trajectory; set_v stores
\* the velocity times gear_drive.
AddTrajectoryPoint(tp, i, v) ==
  LET gear_drive == IF CurrentGear(tp) = "GEAR_REVERSE" THEN -1 ELSE 1
      point == [ index |-> i, state_v |-> v, v |-> v * gear_drive ]
  IN [ tp EXCEPT ![Len(tp)].points = Append(@, point) ]

\* An iteration that never shifts to reverse.
PartitionPointStepDriveOnly(c) ==
  LET v == StateV(c, c.i)
  IN [ c EXCEPT !.i = c.i + 1,
         !.trajectory_partition =
            AddTrajectoryPoint(ShiftToDrive(c.trajectory_partition, v), c.i, v) ]

\* Lines 231-272: one iteration of the partition loop.
PartitionPointStep(c) ==
  LET v == StateV(c, c.i)
  IN [ c EXCEPT !.i = c.i + 1,
         !.trajectory_partition =
            AddTrajectoryPoint(
              ShiftToDrive(ShiftToReverse(c.trajectory_partition, v), v),
              c.i, v) ]

VelocityLists ==
  UNION { [ 1..n -> VelocityLevels ] : n \in 1..(MaxHorizon + 1) }

InitPartition ==
  /\ InitPlanner
  /\ rs_fail = {}
  /\ rs_zero_motion = FALSE
  /\ cmp = ">="
  /\ cost_call = NoCostCall
  /\ prim_call = NoPrimCall
  /\ side_call = NoSideCall
  /\ \E v \in VelocityLists :
       part_call = [ NoPartCall EXCEPT !.v = v, !.pc = "start" ]

PartitionStart ==
  /\ part_call.pc = "start"
  /\ part_call' = PartitionStartStep(part_call)
  /\ UNCHANGED << planner_vars, frame_vars, env_vars, hist_vars, cost_vars,
                  prim_vars, side_call >>

PartitionPoint ==
  /\ part_call.pc = "loop"
  /\ part_call.i < Horizon(part_call) + 1
  /\ part_call' = PartitionPointStep(part_call)
  /\ UNCHANGED << planner_vars, frame_vars, env_vars, hist_vars, cost_vars,
                  prim_vars, side_call >>

\* Lines 274-275: the partition is stored and Status::OK() returned.
PartitionFinish ==
  /\ part_call.pc = "loop"
  /\ part_call.i = Horizon(part_call) + 1
  /\ part_call' = [ part_call EXCEPT
                      !.pc = "ok", !.status = "OK",
                      !.trajectory_partition_ = part_call.trajectory_partition ]
  /\ UNCHANGED << planner_vars, frame_vars, env_vars, hist_vars, cost_vars,
                  prim_vars, side_call >>

NextPartition == PartitionStart \/ PartitionPoint \/ PartitionFinish

SpecPartition == InitPartition /\ [][NextPartition]_vars

(***************************************************************************)
(* SidePassPathDecider::GetPathBoundaries up to its use of the nearest     *)
(* obstacle, with GetNearestObstacle run iteration by iteration.  An        *)
(* obstacle is its SL boundary and its perception type; nearest_obstacle   *)
(* is the position of the obstacle in the list, 0 for nullptr.             *)
(***************************************************************************)
\* adc_sl_boundary.end_s().
AdcEndS == 0

\* reference_line.GetLaneWidth(s, &left, &right): a lane of one width all
\* along the reference line.
LaneLeftWidth == 2
LaneRightWidth == 2
GetLaneWidth(s) == [ left |-> LaneLeftWidth, right |-> LaneRightWidth ]

StdMin(a, b) == IF b < a THEN b ELSE a

\* Obstacles behind the ADC, partially ahead of it, and ahead of it at two
\* distances; in the lane, left of it and right of it; vehicles and others.
ObstacleSRanges == { << -2, -1 >>, << -1, 1 >>, << 1, 2 >>, << 2, 3 >> }
ObstacleLRanges == { << -1, 1 >>, << 3, 4 >>, << -4, -3 >> }
ObstacleTypes == { "VEHICLE", "PEDESTRIAN" }

SideObstacles ==
  { [ start_s |-> sr[1], end_s |-> sr[2], start_l |-> lr[1], end_l |-> lr[2],
      type |-> t ] :
    sr \in ObstacleSRanges, lr \in ObstacleLRanges, t \in ObstacleTypes }

SideObstacleLists ==
  UNION { [ 1..n -> SideObstacles ] : n \in 0..MaxObstacles }

\* Lines 230-264: the filters of GetNearestObstacle.
PassesFilters(obstacle) ==
  LET lane_left_width == StdMin(Abs(GetLaneWidth(obstacle.start_s).left),
                                Abs(GetLaneWidth(obstacle.end_s).left))
      lane_right_width == StdMin(Abs(GetLaneWidth(obstacle.start_s).right),
                                 Abs(GetLaneWidth(obstacle.end_s).right))
  IN /\ ~(obstacle.end_s < AdcEndS)
     /\ ~(obstacle.start_s < AdcEndS)
     /\ ~(obstacle.start_l > lane_left_width \/ obstacle.end_l < -lane_right_width)
     /\ ~(obstacle.type # "VEHICLE")

\* Lines 228-278: one iteration of the loop over the obstacles.
NearestObstacleStep(c) ==
  LET obstacle == c.obstacles[c.i]
      c1 == [ c EXCEPT !.i = c.i + 1 ]
      c2 == IF c.no_obs_selected
            THEN [ c1 EXCEPT !.nearest_obs_start_s = obstacle.start_s,
                             !.nearest_obstacle = c.i,
                             !.no_obs_selected = FALSE ]
            ELSE c1
  IN IF ~PassesFilters(obstacle) THEN c1
     ELSE IF c2.nearest_obs_start_s > obstacle.start_s
     THEN [ c2 EXCEPT !.nearest_obs_start_s = obstacle.start_s ]
     ELSE c2

\* PerceptionSLBoundary() of an obstacle.
PerceptionSLBoundary(obstacle) ==
  << obstacle.start_s, obstacle.end_s, obstacle.start_l, obstacle.end_l >>

InitSidePass ==
  /\ InitPlanner
  /\ rs_fail = {}
  /\ rs_zero_motion = FALSE
  /\ cmp = ">="
  /\ cost_call = NoCostCall
  /\ prim_call = NoPrimCall
  /\ part_call = NoPartCall
  /\ \E obs \in SideObstacleLists :
       side_call = [ NoSideCall EXCEPT !.obstacles = obs, !.pc = "loop", !.i = 1 ]

NearestObstacleIteration ==
  /\ side_call.pc = "loop"
  /\ side_call.i <= Len(side_call.obstacles)
  /\ side_call' = NearestObstacleStep(side_call)
  /\ UNCHANGED << planner_vars, frame_vars, env_vars, hist_vars, cost_vars,
                  prim_vars, part_call >>

\* Line 279: return nearest_obstacle.
NearestObstacleReturn ==
  /\ side_call.pc = "loop"
  /\ side_call.i > Len(side_call.obstacles)
  /\ side_call' = [ side_call EXCEPT !.pc = "returned" ]
  /\ UNCHANGED << planner_vars, frame_vars, env_vars, hist_vars, cost_vars,
                  prim_vars, part_call >>

\* Lines 151-153: GetPathBoundaries calls PerceptionSLBoundary() on the
\* returned pointer without a test.  On nullptr the call is undefined: the
\* process stops, or goes on with whatever boundary the read produced.
PathBoundariesDereference ==
  /\ side_call.pc = "returned"
  /\ IF side_call.nearest_obstacle = 0
     THEN \/ side_call' = [ side_call EXCEPT !.pc = "crashed",
                                              !.null_dereferenced = TRUE ]
          \/ \E garbage \in SideObstacles :
               side_call' = [ side_call EXCEPT
                                !.pc = "bounds", !.null_dereferenced = TRUE,
                                !.nearest_obs_sl_boundary =
                                   PerceptionSLBoundary(garbage) ]
     ELSE side_call' = [ side_call EXCEPT
                           !.pc = "bounds",
                           !.nearest_obs_sl_boundary =
                              PerceptionSLBoundary(
                                side_call.obstacles[side_call.nearest_obstacle]) ]
  /\ UNCHANGED << planner_vars, frame_vars, env_vars, hist_vars, cost_vars,
                  prim_vars, part_call >>

NextSidePass ==
  NearestObstacleIteration \/ NearestObstacleReturn \/ PathBoundariesDereference

SpecSidePass == InitSidePass /\ [][NextSidePass]_vars

(***************************************************************************)
(* A whole Plan call on a newly constructed planner, for comparison: the   *)
(* states in which it may return, one for each way the floating-point      *)
(* evaluation may answer on the steps decided by rounding.                 *)
(***************************************************************************)
RECURSIVE RunPlan(_)
RunPlan(S) ==
  CASE S.pc = "loop" /\ S.open_pq_ # <<>> /\ S.pops < MaxPops ->
         RunPlan(PopStep(S, cmp))
    [] S.pc = "expand" -> RunPlan(ExpandStep(S, rs_fail, rs_zero_motion))
    [] S.pc = "found" \/ (S.pc = "loop" /\ S.open_pq_ = <<>>) ->
         { FinishStep(S, positive) : positive \in EveryRounding(S) }
    [] OTHER -> { S }

PlanOnFresh(a, res) ==
  RunPlan(PlanBeginStep(Constructed, a, res, rs_fail, rs_zero_motion))

(***************************************************************************)
(* Properties.                                                             *)
(***************************************************************************)
Returned == pc = "done" /\ args # <<>>
InCall == pc # "idle" /\ args # <<>>
StartPose == << args.sx, args.sy, args.sphi >>
GoalPose == << args.ex, args.ey, args.ephi >>
StartValid == ValidityCheck(args.sx, args.sy, args.sphi, args.obstacles)
GoalValid == ValidityCheck(args.ex, args.ey, args.ephi, args.obstacles)
SampleAt(r, i) == << r.x[i], r.y[i], r.phi[i] >>

\* C1: whenever Plan returns true, the first sample of the result is the
\* start pose and the last sample is the last sample of the Reeds-Shepp curve
\* that closed the search (the goal pose).
C1_TravelOrder ==
  (Returned /\ ret) =>
    LET rsp == final_node_[1]
        n == Len(result.x)
    IN /\ SampleAt(result, 1) = StartPose
       /\ SampleAt(result, n) =
            << rsp.xs[Len(rsp.xs)], rsp.ys[Len(rsp.ys)], rsp.phis[Len(rsp.phis)] >>
       /\ SampleAt(result, n) = GoalPose

\* C2: no sample pose of a returned path has its vehicle box overlapping an
\* obstacle, intermediate samples of the motion primitives included.
C2_CollisionFree ==
  (Returned /\ ret) =>
    \A i \in 1..Len(result.x) :
      ValidityCheck(result.x[i], result.y[i], result.phi[i], args.obstacles)

\* C3: whenever Plan returns true, |x| = |y| = |phi| = |v| = N and
\* |a| = |steer| = N - 1.
C3_SizeLaws ==
  (Returned /\ ret) =>
    /\ Len(result.y) = Len(result.x)
    /\ Len(result.phi) = Len(result.x)
    /\ Len(result.v) = Len(result.x)
    /\ Len(result.a) = Len(result.x) - 1
    /\ Len(result.steer) = Len(result.x) - 1

C3_Witness ==
  Returned /\ ret /\ Len(result.x) >= 3 /\ final_node_[1].pre[1].pre # <<>>

\* C4: whenever Plan returns false the caller's result object is as it was
\* when Plan was called.
C4_NoPartialResult ==
  (Returned /\ ~ret) => result = result0

\* C5: if the start or the goal pose is in collision, Plan returns false right
\* after the validity check: nothing is popped, and nothing is inserted into
\* the open set, the priority queue or the Reeds-Shepp cache.
C5_FailFast ==
  (InCall /\ (~StartValid \/ ~GoalValid)) =>
    /\ pc = "done" /\ ~ret /\ pops = 0
    /\ open_set_ = <<>> /\ open_pq_ = <<>> /\ ReedSheppPath_cache_ = <<>>

C5_Witness ==
  Returned /\ StartValid /\ ~GoalValid /\ ~ret /\ calls = 2

\* C6: Plan returns true only if the analytic expansion succeeded for a
\* popped node (final_node_ is set: it holds the collision-free cached path of
\* the node popped last, which is its parent); when the queue runs empty
\* without a successful expansion, Plan returns false.
C6_TrueOnlyWithFinalNode ==
  /\ (Returned /\ ret) =>
       /\ final_node_ # <<>> /\ pops > 0 /\ current_node # <<>>
       /\ final_node_[1].pre = current_node
       /\ current_node[1].index \in DOMAIN ReedSheppPath_cache_
       /\ final_node_[1].xs = ReedSheppPath_cache_[current_node[1].index].x
       /\ \A i \in 1..Len(final_node_[1].xs) :
            \A o \in args.obstacles :
              ~HasOverlap(GetBoundingBox(final_node_[1].xs[i], final_node_[1].ys[i],
                                         final_node_[1].phis[i]), o)
  /\ (Returned /\ pops > 0 /\ open_pq_ = <<>> /\ pc = "done"
        /\ current_node # <<>>
        /\ ~RSPCheck(ReedSheppPath_cache_[current_node[1].index], args.obstacles))
       => ~ret

C6_Witness ==
  Returned /\ pops > 0 /\ open_pq_ = <<>> /\ final_node_ = <<>> /\ ~ret

\* C7: if the Reeds-Shepp generator fails for the start-to-goal query, Plan
\* returns false without popping any node.
C7_FirstRSFailure ==
  (InCall /\ StartValid /\ GoalValid /\ StartPose \in rs_fail) =>
    pc = "done" /\ ~ret /\ pops = 0 /\ final_node_ = <<>>

C7_Witness ==
  Returned /\ StartValid /\ GoalValid /\ StartPose \in rs_fail /\ ~ret

\* C9: a Plan call on a planner that has already run earlier Plan calls has
\* the outcome of the same call on a newly constructed planner: the return
\* value and the arrays it leaves are those with which a call on a newly
\* constructed planner, given the same arguments and the same *result,
\* returns.
C9_PurePerInvocation ==
  (Returned /\ ~fresh) =>
    \E T \in PlanOnFresh(args, result0) : Outcome(State) = Outcome(T)

C9_Witness ==
  /\ Returned /\ ~fresh /\ ret /\ pops >= 2
  /\ first # <<>> /\ first[1].args # args /\ first[1].outcome.ret

\* C10: with no obstacles and a successful start-to-goal Reeds-Shepp query the
\* search ends at the first pop: the analytic expansion from the start node
\* succeeds, no successor is generated, and the final node's parent is the
\* start node.
C10_EmptyObstaclesFirstPop ==
  (InCall /\ args.obstacles = {} /\ StartPose \notin rs_fail) =>
    /\ pc \in { "loop", "found", "done" }
    /\ pops <= 1
    /\ DOMAIN open_set_ = { start_node_[1].index }
    /\ pops = 1 => /\ pc \in { "found", "done" }
                   /\ final_node_ # <<>>
                   /\ final_node_[1].pre = start_node_

C10_Witness ==
  pc = "found" /\ args.obstacles = {} /\ pops = 1 /\ GoalPose # StartPose

\* C11: with start = goal and no obstacles Plan returns true with a trivial
\* path, whether the Reeds-Shepp generator answers with a single sample or
\* with a zero-motion path of several samples.
C11_StartEqualsGoal ==
  (Returned /\ StartPose = GoalPose /\ args.obstacles = {}
     /\ StartPose \notin rs_fail /\ result0 = EmptyResult) =>
    /\ ret
    /\ \A i \in 1..Len(result.x) : SampleAt(result, i) = StartPose

(***************************************************************************)
(* Enclosures: the poses a vehicle can drive to from pose p by unit        *)
(* motions, every pose on the way being inside the planning region and     *)
(* free of obstacles.                                                      *)
(***************************************************************************)
RegionPoses(XYbounds) ==
  { << x, y, h >> : x \in XYbounds[1]..XYbounds[2],
                    y \in XYbounds[3]..XYbounds[4], h \in {-1, 0, 1, 2} }

RECURSIVE DrivableFrom(_, _, _, _)
DrivableFrom(found, frontier, obstacles, XYbounds) ==
  IF frontier = {} THEN found
  ELSE LET cand == { q \in { RSStep(s, m) : s \in frontier, m \in 1..6 }
                             \cap RegionPoses(XYbounds) :
                       ValidityCheck(q[1], q[2], q[3], obstacles) } \ found
       IN DrivableFrom(found \cup cand, cand, obstacles, XYbounds)

Drivable(p, obstacles, XYbounds) ==
  IF p \in RegionPoses(XYbounds) /\ ValidityCheck(p[1], p[2], p[3], obstacles)
  THEN DrivableFrom({p}, {p}, obstacles, XYbounds)
  ELSE {}

OnBorder(q, XYbounds) ==
  q[1] \in { XYbounds[1], XYbounds[2] } \/ q[2] \in { XYbounds[3], XYbounds[4] }

\* For every argument record: is the start (the goal) shut in by obstacles,
\* the other pose being out of reach.
EnclosureTable ==
  [ a \in PlanArgs |->
      LET s == << a.sx, a.sy, a.sphi >>
          e == << a.ex, a.ey, a.ephi >>
          ds == Drivable(s, a.obstacles, a.XYbounds)
          de == Drivable(e, a.obstacles, a.XYbounds)
      IN [ start |-> /\ ds # {} /\ de # {} /\ e \notin ds
                     /\ \A q \in ds : ~OnBorder(q, a.XYbounds),
           goal |-> /\ ds # {} /\ de # {} /\ s \notin de
                    /\ \A q \in de : ~OnBorder(q, a.XYbounds) ] ]

StartEnclosed == EnclosureTable[args].start
GoalWalledIn == EnclosureTable[args].goal

\* C12: if the start pose is fully enclosed by obstacles, so that the goal is
\* out of reach, the priority queue drains and Plan returns false (the
\* Reeds-Shepp generator answering every query).
C12_EnclosedStart ==
  (Returned /\ StartEnclosed /\ rs_fail = {}) => (~ret /\ open_pq_ = <<>>)

\* C13: if the goal is walled in by a closed ring of obstacle boxes and the
\* start lies outside the ring, inside the xy bounds, the priority queue
\* drains and Plan returns false (the Reeds-Shepp generator answering every
\* query).
C13_WalledGoal ==
  (Returned /\ GoalWalledIn /\ StartPose \in RegionPoses(args.XYbounds)
     /\ rs_fail = {}) =>
    (~ret /\ open_pq_ = <<>>)

\* Plan is at the loop test (line 363) or inside the successor loop.
InLoop == pc \in { "loop", "expand" }

\* C14: in every state of the search loop no key is in both the open set and
\* the closed set: a popped node, once in the closed set, is no longer in the
\* open set.
C14_OpenClosedDisjoint ==
  InLoop =>
    /\ DOMAIN open_set_ \cap DOMAIN close_set_ = {}
    /\ (pc = "expand" => /\ current_node[1].index \in DOMAIN close_set_
                         /\ current_node[1].index \notin DOMAIN open_set_)


\* The successor the next iteration of the successor loop generates.
NextSuccessor == Next_node_generator(current_node[1], next_node_index, XYbounds_)
\* The successor the last iteration of the successor loop generated.
LastSuccessor ==
  Next_node_generator(current_node[1], next_node_index - 1, XYbounds_)
AfterSuccessor == InLoop /\ current_node # <<>> /\ next_node_index > 0

\* C15: once a key is in the closed set, no later step of the same Plan call
\* inserts a node with that key into the open set or pushes a queue entry
\* for it.
C15_ClosedSetStability ==
  [][InLoop =>
       \A k \in DOMAIN close_set_ :
         /\ k \in DOMAIN close_set_'
         /\ k \in DOMAIN open_set_' =>
              (k \in DOMAIN open_set_ /\ open_set_'[k] = open_set_[k])
         /\ KeyCount(open_pq_', k) <= KeyCount(open_pq_, k)]_vars

\* A valid successor has just been met whose key was already closed.
C15_Witness ==
  /\ AfterSuccessor
  /\ ValidityCheck(LastSuccessor.x, LastSuccessor.y, LastSuccessor.phi, obstacles_)
  /\ LastSuccessor.index \in DOMAIN close_set_
  /\ LastSuccessor.index # current_node[1].index
  /\ KeyCount(open_pq_, LastSuccessor.index) = 0

\* Number of occurrences of key k in the sequence q of keys.
Occurrences(q, k) == Cardinality({ i \in 1..Len(q) : q[i] = k })

\* C16: in one Plan call at most one queue entry is pushed for a key, a key
\* is popped at most once, and the queue never holds two entries with the
\* same key.
C16_OneEntryPerKey ==
  InCall =>
    /\ \A i \in 1..Len(pushed) : Occurrences(pushed, pushed[i]) = 1
    /\ \A i \in 1..Len(popped) : Occurrences(popped, popped[i]) = 1
    /\ \A i \in 1..Len(open_pq_) : KeyCount(open_pq_, open_pq_[i][1]) = 1

\* A valid successor has just been met whose key had been pushed and not yet
\* popped, after two pops.
C16_Witness ==
  /\ AfterSuccessor
  /\ Len(popped) = 2
  /\ ValidityCheck(LastSuccessor.x, LastSuccessor.y, LastSuccessor.phi, obstacles_)
  /\ Occurrences(pushed, LastSuccessor.index) = 1
  /\ Occurrences(popped, LastSuccessor.index) = 0
  /\ KeyCount(open_pq_, LastSuccessor.index) = 1

\* C17: the entry a pop removes has the lowest f = traj_cost + heu_cost of
\* the entries in the queue, and its key is the key of an open-set node,
\* which becomes the node being expanded.
C17_PopLowestCost ==
  [][(pc = "loop" /\ Len(popped') = Len(popped) + 1) =>
       LET key == popped'[Len(popped')]
           i == CHOOSE i \in 1..Len(open_pq_) :
                  open_pq_[i][1] = key /\ SameEntries(WithoutEntry(open_pq_, i), open_pq_')
       IN /\ key \in DOMAIN open_set_
          /\ current_node' = << open_set_[key] >>
          /\ pc' \in { "expand", "found" }
          /\ open_pq_[i][2] = GetCost(open_set_[key])
          /\ \A j \in 1..Len(open_pq_) :
               /\ open_pq_[i][2] <= open_pq_[j][2]
               /\ open_pq_[j][1] \in DOMAIN open_set_
               /\ GetCost(open_set_[key]) <= GetCost(open_set_[open_pq_[j][1]])]_vars

\* A second pop has just taken one of several entries of different costs,
\* leaving a costlier entry that was pushed after it.
C17_Witness ==
  /\ pc = "expand" /\ next_node_index = 0 /\ Len(popped) = 2
  /\ \E j \in 1..Len(open_pq_) :
       /\ open_pq_[j][2] > GetCost(current_node[1])
       /\ \E a \in 1..Len(pushed), b \in 1..Len(pushed) :
            a < b /\ pushed[a] = current_node[1].index /\ pushed[b] = open_pq_[j][1]

\* C18: no rewiring: an iteration of the successor loop whose successor has a
\* key already in the open set changes nothing: the open node keeps its
\* parent, costs and samples, nothing is pushed, and the Reeds-Shepp cache
\* stays as it is.
C18_NoRewiring ==
  [][(pc = "expand" /\ NextSuccessor.index \in DOMAIN open_set_) =>
       /\ open_set_' = open_set_
       /\ open_pq_' = open_pq_
       /\ ReedSheppPath_cache_' = ReedSheppPath_cache_
       /\ close_set_' = close_set_
       /\ pushed' = pushed]_vars

\* A valid successor has just been met whose key belongs to an open node that
\* is not closed and has another parent.
C18_Witness ==
  /\ AfterSuccessor
  /\ ValidityCheck(LastSuccessor.x, LastSuccessor.y, LastSuccessor.phi, obstacles_)
  /\ LastSuccessor.index \in DOMAIN open_set_
  /\ LastSuccessor.index \notin DOMAIN close_set_
  /\ open_set_[LastSuccessor.index].pre # current_node
  /\ << LastSuccessor.x, LastSuccessor.y, LastSuccessor.phi >> \notin rs_fail

\* traj_cost does not decrease from parent to child along the parent chain
\* of node n.
RECURSIVE ChainMonotone(_)
ChainMonotone(n) ==
  \/ n.pre = <<>>
  \/ n.traj_cost >= n.pre[1].traj_cost /\ ChainMonotone(n.pre[1])

\* C19: with non-negative penalties, along the parent chain of every node,
\* the terminal node of the analytic expansion included, a child's traj_cost
\* is at least its parent's.
C19_CostMonotone ==
  InCall =>
    /\ \A k \in DOMAIN open_set_ : ChainMonotone(open_set_[k])
    /\ \A k \in DOMAIN close_set_ : ChainMonotone(close_set_[k])
    /\ final_node_ # <<>> => ChainMonotone(final_node_[1])

\* C20: the length term of CalculateRSPCost charges forward arc length at
\* unit cost and reverse arc length at back_penalty: it is the sum of L[i]
\* over the positive L[i] plus back_penalty times the sum of -L[i] over the
\* negative L[i], hence non-negative.
C20_LengthTerm ==
  cost_call.pc = "gear" =>
    LET L == cost_call.segs_lengths
    IN /\ cost_call.RSP_cost =
            SumSeq([ i \in 1..Len(L) |-> IF L[i] > 0 THEN L[i] ELSE 0 ])
            + back_penalty_ * SumSeq([ i \in 1..Len(L) |->
                                         IF L[i] < 0 THEN -L[i] ELSE 0 ])
       /\ cost_call.RSP_cost >= 0

\* The non-'S' segment types of T, in order.
IsTurn(t) == t # "S"
Turns(T) == SelectSeq(T, IsTurn)

\* C21: the steering term of CalculateRSPCost is steer_penalty*max_steer for
\* every non-'S' segment plus 2*steer_change_penalty*max_steer once for each
\* pair of consecutive non-'S' segments of different types ('S' segments
\* between them skipped); the first non-'S' segment incurs no transition
\* penalty, so L,R,R incurs one transition penalty and L,R,L two.
C21_SteerTerm ==
  cost_call.pc = "done" =>
    LET turns == Turns(cost_call.segs_types)
        changes == Cardinality({ i \in 1..(Len(turns) - 1) :
                                   turns[i] # turns[i + 1] })
    IN cost_call.steer_term =
         steer_penalty_ * max_steer_ * Len(turns)
         + 2 * steer_change_penalty_ * max_steer_ * changes

\* C22: for every path of n segments the gear-switch term of CalculateRSPCost
\* is gear_switch_penalty times the number of adjacent pairs with
\* L[i]*L[i+1] < 0 (0 when n is 0 or 1), and segs_lengths is read only at
\* indices below n.
C22_GearTerm ==
  cost_call.pc \in { "steer", "done", "crashed" } =>
    LET L == cost_call.segs_lengths
    IN /\ cost_call.pc # "crashed"
       /\ ~cost_call.out_of_range
       /\ cost_call.gear_term =
            gear_switch_penalty_ *
              Cardinality({ i \in 1..(Len(L) - 1) : L[i] * L[i + 1] < 0 })

\* C23: every successor next in the open set, with parent current, has
\* traj_cost = current.traj_cost + base + gear + steer_penalty*|next.steer|
\* + steer_change_penalty*|next.steer - current.steer|, base being
\* xy_grid_resolution forward and xy_grid_resolution*back_penalty in reverse,
\* gear being gear_switch_penalty iff the directions differ; its heu_cost is
\* the cost of the cached Reeds-Shepp path from next to the goal.
C23_NodeCost ==
  InCall =>
    \A k \in DOMAIN open_set_ :
      LET next == open_set_[k]
      IN next.pre # <<>> =>
           LET current == next.pre[1]
               base == IF next.direc THEN xy_grid_resolution_
                       ELSE xy_grid_resolution_ * back_penalty_
               gear == IF current.direc = next.direc THEN 0
                       ELSE gear_switch_penalty_
           IN /\ next.traj_cost =
                   current.traj_cost + base + gear
                   + steer_penalty_ * Abs(next.steer)
                   + steer_change_penalty_ * Abs(next.steer - current.steer)
              /\ k \in DOMAIN ReedSheppPath_cache_
              /\ ReedSheppPath_cache_[k] =
                   ShortestRSP(next, end_node_[1], rs_fail, rs_zero_motion).path
              /\ next.heu_cost = CalculateRSPCost(ReedSheppPath_cache_[k])

\* The open set holds a successor of a steered reverse node that changes
\* gear and steers the other way.
C23_Witness ==
  /\ InCall
  /\ \E k \in DOMAIN open_set_ :
       LET next == open_set_[k]
       IN /\ next.pre # <<>>
          /\ next.pre[1].pre # <<>>
          /\ next.pre[1].steer # 0
          /\ next.steer = -next.pre[1].steer
          /\ next.direc # next.pre[1].direc

\* The steering of a call of Next_node_generator is the fraction num / den
\* of max_steer: it is a number in [-max_steer, max_steer], lowest at the
\* first index of a half and highest at the last.
SteeringFan(K, k, steering) ==
  LET half == K \div 2
      j == IF k < half THEN k ELSE k - half
  IN /\ ~steering.nan /\ ~steering.inf
     /\ steering.den > 0
     /\ steering.num * (half - 1) = (-(half - 1) + 2 * j) * steering.den
     /\ -steering.den <= steering.num /\ steering.num <= steering.den
     /\ j = 0 => steering.num = -steering.den
     /\ j = half - 1 => steering.num = steering.den

\* C24: for every even positive K = next_node_num and every index k in
\* [0, K), k < K/2 gives a forward node and k >= K/2 a reverse node, and the
\* steering is -max_steer + j*(2*max_steer/(K/2 - 1)), a well-defined value
\* in [-max_steer, max_steer], both extremes attained.
C24_PrimitiveFan ==
  prim_call.pc = "done" =>
    /\ prim_call.direc = (prim_call.next_node_index < prim_call.next_node_num \div 2)
    /\ SteeringFan(prim_call.next_node_num, prim_call.next_node_index,
                   prim_call.steering)

\* The fan of C24 is as stated for every even next_node_num of at least 4,
\* and for the configured next_node_num_ it is the steering the search uses.
C24_PrimitiveFanFromFour ==
  (prim_call.pc = "done" /\ prim_call.next_node_num >= 4) =>
    /\ prim_call.direc = (prim_call.next_node_index < prim_call.next_node_num \div 2)
    /\ SteeringFan(prim_call.next_node_num, prim_call.next_node_index,
                   prim_call.steering)
    /\ prim_call.next_node_num = next_node_num_ /\ ~prim_call.steering.nan =>
         prim_call.steering.num * max_steer_ =
           PrimitiveSteering(prim_call.next_node_index) * prim_call.steering.den

\* The last reverse primitive of a fan of eight, at full steering.
C24_Witness ==
  /\ prim_call.pc = "done"
  /\ prim_call.next_node_num = 8 /\ prim_call.next_node_index = 7
  /\ ~prim_call.direc
  /\ prim_call.steering.num = prim_call.steering.den

\* floor(sqrt(2) * res / step): the greatest n with n^2 * step^2 <= 2 * res^2.
FloorArcOverStep(res, step) ==
  CHOOSE n \in 0..(2 * res + 1) :
    /\ n * n * step * step <= 2 * res * res
    /\ (n + 1) * (n + 1) * step * step > 2 * res * res

\* C25: Next_node_generator integrates exactly floor(arc / step_size)
\* substeps with arc = sqrt(2) * xy_grid_resolution, so every generated node
\* carries floor(arc / step_size) + 1 samples, also when arc / step_size is
\* not an integer.
C25_FloorSubsteps ==
  prim_call.pc = "done" =>
    LET n == FloorArcOverStep(prim_call.xy_grid_resolution, prim_call.step_size)
    IN /\ prim_call.substeps = n
       /\ prim_call.samples = n + 1

\* The pop of one iteration of the search loop, and the step after a
\* successful analytic expansion.
PopTaken == pc = "loop" /\ pc' \in {"found", "expand"}

\* C26: the analytic expansion from a popped node succeeds iff every sample
\* of the path cached under the node's key is valid; on success the loop ends
\* without expanding the node, and the final node holds the whole sample
\* sequence of the path, has the popped node as parent and the RS cost of the
\* path as traj_cost.
C26_AnalyticExpansion ==
  [][ /\ PopTaken =>
           LET node == open_set_[popped'[Len(popped')]]
               rsp == ReedSheppPath_cache_[node.index]
               valid == \A i \in 1..Len(rsp.x) :
                          \A box \in obstacles_ :
                            ~HasOverlap(GetBoundingBox(rsp.x[i], rsp.y[i], rsp.phi[i]), box)
           IN /\ current_node' = << node >>
              /\ (pc' = "found") <=> valid
              /\ pc' = "found" =>
                   /\ final_node_'[1].xs = rsp.x
                   /\ final_node_'[1].ys = rsp.y
                   /\ final_node_'[1].phis = rsp.phi
                   /\ final_node_'[1].pre = << node >>
                   /\ final_node_'[1].traj_cost = CalculateRSPCost(rsp)
                   /\ open_set_' = open_set_
                   /\ ReedSheppPath_cache_' = ReedSheppPath_cache_
                   /\ \E k \in 1..Len(open_pq_) :
                        SameEntries(WithoutEntry(open_pq_, k), open_pq_')
      /\ pc = "found" => (pc' = "done" /\ open_set_' = open_set_
                           /\ open_pq_' = open_pq_)
    ]_vars

\* A later pop succeeds: the popped node has a cost of its own and an
\* earlier pop has failed on an obstacle.
C26_Witness ==
  /\ pc = "found"
  /\ pops >= 2
  /\ current_node[1].traj_cost > 0
  /\ Len(final_node_[1].xs) >= 2
  /\ final_node_[1].pre = current_node

\* C27: during one Plan call the Reeds-Shepp generator is queried at most once
\* per index key, and the path that AnalyticExpansion tests when a node is
\* popped is the cache entry whose RS cost was stored as the node's heu_cost
\* when the node was inserted into the open set.
C27_OneQueryPerKey ==
  InCall =>
    /\ \A i \in 1..Len(queried) : Occurrences(queried, queried[i]) = 1
    /\ \A i \in 1..Len(popped) :
         popped[i] \in DOMAIN open_set_ =>
           /\ popped[i] \in DOMAIN ReedSheppPath_cache_
           /\ open_set_[popped[i]].heu_cost =
                CalculateRSPCost(ReedSheppPath_cache_[popped[i]])

\* The second half of C27 holds for the nodes that the successor loop
\* inserted.
C27_SuccessorsOnly ==
  InCall =>
    \A i \in 1..Len(popped) :
      (popped[i] \in DOMAIN open_set_ /\ open_set_[popped[i]].pre # <<>>) =>
        /\ popped[i] \in DOMAIN ReedSheppPath_cache_
        /\ open_set_[popped[i]].heu_cost =
             CalculateRSPCost(ReedSheppPath_cache_[popped[i]])

\* The nodes of a parent chain, from the given node back to the start.
RECURSIVE Chain(_)
Chain(node) ==
  IF node.pre = <<>> THEN << node >> ELSE << node >> \o Chain(node.pre[1])

\* The samples of a parent chain with the sample shared by a node and its
\* parent taken once: the start pose, then each node's samples after the first.
RECURSIVE ChainSamples(_)
ChainSamples(node) ==
  IF node.pre = <<>> THEN << << node.x, node.y, node.phi >> >>
  ELSE ChainSamples(node.pre[1]) \o
       [ i \in 1..(Len(node.xs) - 1) |->
           << node.xs[i + 1], node.ys[i + 1], node.phis[i + 1] >> ]

\* The poses of a result.
ResultSamples(res) ==
  [ i \in 1..Len(res.x) |-> << res.x[i], res.y[i], res.phi[i] >> ]

\* C28: for a final node with parent chain n_1 (final), ..., n_m, start, the
\* output has N = 1 + sum over j of (|xs(n_j)| - 1) poses, and the sample a
\* node shares with its parent appears once: the output holds the same poses,
\* as often, as the chain with each shared sample taken once.
C28_ReconstructionLength ==
  (Returned /\ final_node_ # <<>>) =>
    LET chain == Chain(final_node_[1])
        N == 1 + SumSeq([ j \in 1..(Len(chain) - 1) |-> Len(chain[j].xs) - 1 ])
        out == ResultSamples(result)
        expected == ChainSamples(final_node_[1])
    IN /\ Len(result.x) = N /\ Len(result.y) = N /\ Len(result.phi) = N
       /\ \A p \in { out[i] : i \in 1..Len(out) }
                \cup { expected[i] : i \in 1..Len(expected) } :
            Occurrences(out, p) = Occurrences(expected, p)
       /\ ret => (Len(result.v) = N /\ Len(result.a) = N - 1)

\* A returned path through an expanded node and a Reeds-Shepp path of
\* several samples.
C28_Witness ==
  /\ Returned /\ ret /\ final_node_ # <<>>
  /\ Len(Chain(final_node_[1])) >= 3
  /\ Len(final_node_[1].xs) >= 3
  /\ Len(result.x) >= 6

\* The search was closed on the first pop by a straight forward Reeds-Shepp
\* path from the start, on a map without obstacles.
ForwardStraightShot ==
  /\ Returned /\ ret /\ args.obstacles = {} /\ pops = 1
  /\ StartPose = << 0, 0, 0 >>
  /\ args.ex > 0 /\ args.ey = 0 /\ args.ephi = 0
  /\ LET rsp == ReedSheppPath_cache_[start_node_[1].index]
     IN /\ Len(rsp.x) >= 2
        /\ \A i \in 1..Len(rsp.segs_types) :
             rsp.segs_types[i] = "S" /\ rsp.segs_lengths[i] > 0
  /\ result0 = EmptyResult

\* C29: for a plan whose motion is entirely forward (start (0,0,0), goal
\* straight ahead, no obstacles, search closed on the first pop by a straight
\* forward Reeds-Shepp segment) the derived velocity is positive at every
\* index below N-1 and zero at N-1.
C29_ForwardVelocity ==
  ForwardStraightShot =>
    LET N == Len(result.v)
    IN /\ N = Len(result.x)
       /\ \A i \in 1..(N - 1) : result.v[i] > 0
       /\ result.v[N] = 0

\* In that plan the last velocity is zero and the others have the same
\* magnitude, step_size_ / delta_t_, with the sign of the order of the samples.
C29_ForwardVelocityReversed ==
  ForwardStraightShot =>
    LET N == Len(result.v)
    IN /\ N = Len(result.x)
       /\ \A i \in 1..(N - 1) : result.v[i] = -(step_size_ \div delta_t_)
       /\ result.v[N] = 0

\* The headings of the interval (-pi, pi].
NormalizedHeadings == (-Pi + 1)..Pi

\* C30: every heading in the phi array of a returned path lies in (-pi, pi],
\* for every start heading sphi passed to Plan, values outside that interval
\* included, and every primitive generated by the expander.
C30_HeadingNormalized ==
  (Returned /\ ret) =>
    \A i \in 1..Len(result.phi) : result.phi[i] \in NormalizedHeadings

\* For a start heading in (-pi, pi] every heading of a returned path and of
\* every node of the search is in (-pi, pi]; for any start heading, every
\* heading of a returned path but that of the start sample is.
C30_NormalizedButStart ==
  /\ (Returned /\ ret) =>
       \A i \in 1..Len(result.phi) :
         (result.phi[i] \in NormalizedHeadings
          \/ (i = Len(result.phi) /\ result.phi[i] = args.sphi
              /\ args.sphi \notin NormalizedHeadings))
  /\ (InCall /\ args.sphi \in NormalizedHeadings) =>
       \A k \in DOMAIN open_set_ :
         \A i \in 1..Len(open_set_[k].phis) :
           open_set_[k].phis[i] \in NormalizedHeadings

\* The successor of this iteration of the successor loop is handed to the
\* Reeds-Shepp generator, which finds no path from it.
HeuristicFails ==
  /\ pc = "expand"
  /\ HeuristicQuery(State) # << >>
  /\ << NextSuccessor.x, NextSuccessor.y, NextSuccessor.phi >> \in rs_fail

\* C31: a Reeds-Shepp failure for an intermediate successor is local: the
\* successor is not inserted into the open set, the queue or the cache, the
\* remaining successors of the same parent are still processed, and the
\* search continues with the next pop.
C31_LocalHeuristicFailure ==
  [][ HeuristicFails =>
        /\ open_set_' = open_set_
        /\ open_pq_' = open_pq_
        /\ ReedSheppPath_cache_' = ReedSheppPath_cache_
        /\ close_set_' = close_set_
        /\ current_node' = current_node
        /\ final_node_' = final_node_
        /\ next_node_index' = next_node_index + 1
        /\ pc' = IF next_node_index + 1 < next_node_num_ THEN "expand" ELSE "loop"
    ]_vars

\* After a failed query a later successor of the same parent was inserted,
\* and the search has gone on to a further pop.
C31_Witness ==
  /\ InCall /\ pops >= 2
  /\ \E i \in 1..Len(queried) :
       /\ queried[i] \notin DOMAIN open_set_
       /\ \E j \in (i + 1)..Len(queried) :
            /\ queried[j] \in DOMAIN open_set_
            /\ open_set_[queried[j]].pre # <<>>
            /\ open_set_[queried[j]].pre[1].index = popped[1]

\* The vehicle box at the terminal pose of a node overlaps no obstacle of the
\* current call.
ClearOfObstacles(node) ==
  \A box \in obstacles_ :
    ~HasOverlap(GetBoundingBox(node.x, node.y, node.phi), box)

\* C32: every node that is ever in the open set, or moved to the closed set
\* by a pop, has a terminal pose whose vehicle box overlaps no obstacle; a
\* successor that fails the validity check, or whose key is already in the
\* closed set, is never inserted.
C32_OnlyValidNodes ==
  /\ [](InCall =>
          /\ \A k \in DOMAIN open_set_ : ClearOfObstacles(open_set_[k])
          /\ \A k \in DOMAIN close_set_ : ClearOfObstacles(close_set_[k]))
  /\ [][ pc = "expand" =>
           LET next == NextSuccessor
           IN (~ClearOfObstacles(next) \/ next.index \in DOMAIN close_set_) =>
                /\ open_set_' = open_set_
                /\ open_pq_' = open_pq_
                /\ ReedSheppPath_cache_' = ReedSheppPath_cache_
                /\ close_set_' = close_set_ ]_vars

\* The successor loop of the first pop has met a successor inside an
\* obstacle and inserted others.
C32_Witness ==
  /\ pc = "loop" /\ pops = 1 /\ current_node # <<>>
  /\ obstacles_ # {}
  /\ \E i \in 0..(next_node_num_ - 1) :
       ~ClearOfObstacles(Next_node_generator(current_node[1], i, XYbounds_))
  /\ Cardinality(DOMAIN open_set_) >= 3

\* The nodes of the open and the closed set.
SearchNodes ==
  { open_set_[k] : k \in DOMAIN open_set_ } \cup
  { close_set_[k] : k \in DOMAIN close_set_ }

\* A node has a parent, and its samples run from the parent's terminal pose
\* to its own pose.
LinkedToParent(node) ==
  /\ node.pre # <<>>
  /\ Len(node.xs) >= 1
  /\ << node.xs[1], node.ys[1], node.phis[1] >> =
       << node.pre[1].x, node.pre[1].y, node.pre[1].phi >>
  /\ << node.xs[Len(node.xs)], node.ys[Len(node.ys)], node.phis[Len(node.phis)] >> =
       << node.x, node.y, node.phi >>

\* The parent of a node is in the closed set.
ParentClosed(node) ==
  /\ node.pre[1].index \in DOMAIN close_set_
  /\ close_set_[node.pre[1].index] = node.pre[1]

\* The parent chain of a node ends at the start node and visits no key twice.
ChainToStart(node) ==
  LET chain == Chain(node)
  IN /\ chain[Len(chain)] = start_node_[1]
     /\ \A i, j \in 1..Len(chain) : chain[i].index = chain[j].index => i = j

\* C33: every node in the open or closed set other than the start node has a
\* non-null parent that was already in the closed set when the node was
\* created, its first sample is the parent's terminal pose and its last
\* sample its own pose; the parent links from any node lead to the start node
\* in finitely many steps without revisiting a node.
C33_ParentChain ==
  (InCall /\ start_node_ # <<>>) =>
    \A node \in SearchNodes :
      /\ node # start_node_[1] => (LinkedToParent(node) /\ ParentClosed(node))
      /\ ChainToStart(node)

\* C33 without the closed parent, for nodes other than the final node.
C33_LinkedOnly ==
  (InCall /\ start_node_ # <<>>) =>
    \A node \in SearchNodes :
      (node # start_node_[1] /\ << node >> # final_node_) =>
         (LinkedToParent(node) /\ ParentClosed(node) /\ ChainToStart(node))

\* C34: the outcome of Plan does not depend on the contents of *result at
\* call time: with a Result whose v, a or steer are not empty, Plan gives the
\* return value of the call with an empty Result and, where that call
\* succeeds, the same x, y, phi, v, a and steer.
C34_ResultContentsIgnored ==
  Returned =>
    \E T \in PlanOnFresh(args, EmptyResult) :
      LET empty == Outcome(T)
      IN /\ ret = empty.ret
         /\ empty.ret => result = empty.result

\* With a Result object that is not empty, Plan returns false wherever the
\* path has at least two samples, and leaves the new x, y, phi next to v, a
\* and steer that begin with the old contents.
C34_ReusedResultFails ==
  (Returned /\ final_node_ # <<>> /\ Len(result0.v) > 0) =>
    /\ ~ret
    /\ Len(result.x) >= 2 =>
         /\ SubSeq(result.v, 1, Len(result0.v)) = result0.v
         /\ Len(result.v) = Len(result0.v) + Len(result.x)

\* The terminal pose of a node is inside the region XYbounds_ =
\* << xmin, xmax, ymin, ymax >>.
InsideXYbounds(node) ==
  /\ XYbounds_[1] <= node.x /\ node.x <= XYbounds_[2]
  /\ XYbounds_[3] <= node.y /\ node.y <= XYbounds_[4]

\* The number of index keys of the grid over XYbounds_.
GridSize ==
  ((XYbounds_[2] - XYbounds_[1]) \div xy_grid_resolution_ + 1)
  * ((XYbounds_[4] - XYbounds_[3]) \div xy_grid_resolution_ + 1)
  * ((2 * Pi) \div phi_grid_resolution_ + 1)

\* C35: the search stays inside the planning region: every node inserted into
\* the open set has its terminal pose within the xy bounds passed to Plan, so
\* the index keys ever inserted are bounded by the grid size.
C35_InsideRegion ==
  (InCall /\ start_node_ # <<>> /\ args.sphi \in NormalizedHeadings) =>
    /\ \A k \in DOMAIN open_set_ : InsideXYbounds(open_set_[k])
    /\ \A k \in DOMAIN open_set_ : 0 <= k /\ k < GridSize

\* C36: in every state of the search loop the keys of the queue entries are
\* open-set keys and every open-set key has a Reeds-Shepp cache entry; hence
\* no pop yields a key missing from the open set and AnalyticExpansion never
\* reads an absent cache entry.
C36_NoNullNode ==
  /\ pc # "crashed"
  /\ (InCall /\ pc \in {"loop", "expand", "found"}) =>
       /\ \A i \in 1..Len(open_pq_) : open_pq_[i][1] \in DOMAIN open_set_
       /\ DOMAIN open_set_ \subseteq DOMAIN ReedSheppPath_cache_
       /\ \A i \in 1..Len(popped) :
            /\ popped[i] \in DOMAIN open_set_
            /\ popped[i] \in DOMAIN ReedSheppPath_cache_

\* After two pops, with a failed Reeds-Shepp query behind, entries still
\* wait in the queue.
C36_Witness ==
  /\ pc = "expand" /\ Len(popped) >= 2 /\ Len(open_pq_) >= 2
  /\ \E i \in 1..Len(queried) : queried[i] \notin DOMAIN open_set_

\* The indices of the points of a partition, trajectory after trajectory.
RECURSIVE PointIndices(_)
PointIndices(tp) ==
  IF tp = <<>> THEN <<>>
  ELSE [ k \in 1..Len(tp[1].points) |-> tp[1].points[k].index ]
       \o PointIndices(Tail(tp))

\* C37: when the gear partition succeeds, consecutive trajectories have
\* alternating gears, every point of a GEAR_DRIVE trajectory has a velocity of
\* at least -1e-3 and every point of a GEAR_REVERSE trajectory one of at most
\* 1e-3, and each of the horizon + 1 points is in exactly one trajectory, in
\* its original order.
C37_GearPartition ==
  part_call.pc = "ok" =>
    LET tp == part_call.trajectory_partition_
    IN /\ \A j \in 1..(Len(tp) - 1) : tp[j].gear # tp[j + 1].gear
       /\ \A j \in 1..Len(tp) :
            /\ tp[j].gear \in { "GEAR_DRIVE", "GEAR_REVERSE" }
            /\ \A k \in 1..Len(tp[j].points) :
                 /\ tp[j].gear = "GEAR_DRIVE" => tp[j].points[k].state_v >= -VelEps
                 /\ tp[j].gear = "GEAR_REVERSE" => tp[j].points[k].state_v <= VelEps
                 /\ tp[j].points[k].state_v = StateV(part_call, tp[j].points[k].index)
       /\ PointIndices(tp) = [ n \in 1..(Horizon(part_call) + 1) |-> n - 1 ]

\* A partition of three trajectories: drive, reverse and drive again.
C37_Witness ==
  /\ part_call.pc = "ok"
  /\ Len(part_call.trajectory_partition_) = 3
  /\ part_call.trajectory_partition_[1].gear = "GEAR_DRIVE"
  /\ Len(part_call.trajectory_partition_[2].points) >= 1

\* The positions of the obstacles of interest in the list of a call.
ObstaclesOfInterest ==
  { j \in 1..Len(side_call.obstacles) : PassesFilters(side_call.obstacles[j]) }

\* C38: GetNearestObstacle returns, among the obstacles that pass the filters
\* (fully ahead of the ADC, in lane, of type VEHICLE), the one with the
\* smallest start_s, in whatever order the obstacles are listed.
C38_NearestObstacle ==
  side_call.pc = "returned" =>
    IF ObstaclesOfInterest = {}
    THEN side_call.nearest_obstacle = 0
    ELSE /\ side_call.nearest_obstacle \in ObstaclesOfInterest
         /\ \A j \in ObstaclesOfInterest :
              side_call.obstacles[side_call.nearest_obstacle].start_s
                <= side_call.obstacles[j].start_s

\* GetNearestObstacle returns the first obstacle of interest of the list, and
\* nearest_obs_start_s is the smallest start_s among them.
C38_FirstOfInterest ==
  side_call.pc = "returned" =>
    IF ObstaclesOfInterest = {}
    THEN side_call.nearest_obstacle = 0
    ELSE /\ side_call.nearest_obstacle \in ObstaclesOfInterest
         /\ \A j \in ObstaclesOfInterest : side_call.nearest_obstacle <= j
         /\ \A j \in ObstaclesOfInterest :
              side_call.nearest_obs_start_s <= side_call.obstacles[j].start_s

\* C39: GetPathBoundaries never dereferences a null obstacle: when no
\* obstacle passes the filters of GetNearestObstacle, the path generation
\* does not use the obstacle's SL boundary.
C39_NoNullDereference ==
  /\ side_call.pc # "crashed"
  /\ ~side_call.null_dereferenced
  /\ (side_call.pc = "bounds" /\ ObstaclesOfInterest = {}) =>
       side_call.nearest_obs_sl_boundary = <<>>

\* The boundary is read from the returned pointer in every call; it is the
\* boundary of an obstacle of the list exactly when one is of interest.
C39_NullWhenNoneOfInterest ==
  side_call.pc \in { "bounds", "crashed" } =>
    (side_call.null_dereferenced <=> ObstaclesOfInterest = {})

====
